---- MODULE Spec2Model ----
(***************************************************************************)
(* Verification model of AMRELmp (forest road extraction from LiDAR).      *)
(*                                                                         *)
(* Part 1: the carriage track detector                                     *)
(*   src/src/ASDetector/ctrackdetector.cpp                                 *)
(* CTrackDetector::detect (p1, p2) is followed step by step: the stroke    *)
(* length check, the central plateau detection (standard and automatic     *)
(* variants), the side walks of CTrackDetector::track, the second chance,  *)
(* the tail pruning, the stroke re-alignment and the global pruning.       *)
(*                                                                         *)
(* The classes Plateau, PlateauModel and CarriageTrack are not part of the *)
(* sources at hand. What a Plateau computes from the point cloud is an     *)
(* input of the detector: each plateau detection yields a record of the    *)
(* flags the detector reads (status OK, hasEnoughPoints, bounded,          *)
(* reliable, isAccepted, width), drawn nondeterministically. CarriageTrack *)
(* is the container described by the specification: a central plateau and  *)
(* two sequences of plateaux, indexed 0, -1, -2, .. (right) and 1, 2, ..   *)
(* (left).                                                                 *)
(*                                                                         *)
(* Lengths are integers: the cell size is counted in half metres, the      *)
(* relative shift length in hundredths.                                    *)
(***************************************************************************)
EXTENDS Integers, Sequences, FiniteSets, TLC

VARIABLES
  cfg,                \* detector settings (auto_p, initial_track_extent, ..)
  csize,              \* cell size, in half metres
  pc,                 \* position of the running detect (p1, p2) call
  result,             \* what the last detect (p1, p2) returned
  ip,                 \* input stroke of the running call: <<dx, dy>> in cells
  fct, ict,           \* final and initial carriage tracks
  fstatus, istatus,   \* final and initial detection status
  initial_unbounded,  \* no bounded plateau met yet
  pass,               \* frame of detect (int) / detect ()
  au,                 \* frame of the automatic central plateau search
  tr,                 \* frame of track ()
  ds,                 \* the scanners ds (right side) and ds2 (left side):
                      \* scans consumed, scans the raster holds on each side
  terrain,            \* point cloud around the stroke: dominant scan outcome
  anomaly,            \* a scan of this call departed from the dominant outcome
  walks,              \* history: the side walks of the current pass, and
                      \* whether each met a bounded accepted plateau at
                      \* the bounds test (line 642) while going on
  okWidths,           \* history: widths of the successful central attempts
  rsl,                \* relativeShiftLength () read by the global pruning
  sc,                 \* an AdaptiveScannerO2
  out,                \* the vector the scanner's caller passes to it
  last,               \* the last scanner operation: arguments and result
  run,                \* history: the scans of first () and of the
                      \* nextOnLeft / nextOnRight calls that followed it
  tool,               \* AmrelTool: road_sections, successful seeds, counters
  dmap,               \* detection_map, the AmrelMap of the tool
  heap,               \* the carriage tracks allocated: live and deleted ones
  seed,               \* the seed processAsd dealt with last: what came of it
  pad,                \* TerrainMap: tile grid, pad size, pad_ref, pad buffer
  saw,                \* frame of processSawing: gmap, dss, seeds, pads so far
  job,                \* frame of AmrelTool::run: step, position, outputs
  store,              \* out_seeds, the seeds file and the tiles of processAsd
  plt,                \* the Plateau objects made for the last scan of a walk
  srt                 \* the points of a scan: as collected, and as sorted

\* the detector
ctdet == <<cfg, csize, pc, result, ip, fct, ict, fstatus, istatus,
           initial_unbounded, pass, au, tr, ds, terrain, anomaly, walks,
           okWidths, rsl>>

\* the directional scanner under study, with its caller's vector
scanning == <<sc, out, last, run>>

\* the tool that runs the detector on seeds
asd == <<tool, dmap, heap, seed>>

\* the steps the tool runs before the detection
amrel == <<pad, saw, job, store, plt>>

vars == <<ctdet, scanning, asd, amrel, srt>>

-----------------------------------------------------------------------------
(* Program constants                                                       *)

RESULT_NONE == 0
RESULT_OK == 1
RESULT_FAIL_TOO_NARROW_INPUT == -1
RESULT_FAIL_NO_AVAILABLE_SCAN == -2
RESULT_FAIL_NO_CENTRAL_PLATEAU == -3
RESULT_FAIL_NO_CONSISTENT_SEQUENCE == -4
RESULT_FAIL_NO_BOUNDS == -5
RESULT_FAIL_TOO_HECTIC_PLATEAUX == -6
RESULT_FAIL_TOO_SPARSE_PLATEAUX == -7
RESULT_FAIL_DISCONNECT == -8

MAX_TRACK_WIDTH == 6
DEFAULT_PLATEAU_LACK_TOLERANCE == 11
NOBOUNDS_TOLERANCE == 10
INITIAL_TRACK_EXTENT == 6
DEFAULT_MIN_DENSITY == 60
\* 1.65f, in hundredths
DEFAULT_MAX_SHIFT_LENGTH == 165
NB_SIDE_TRIALS == 5
\* AmrelTool's settings of the detector; 0.5f in hundredths
NOMINAL_PLATEAU_LACK_TOLERANCE == 5
NOMINAL_MAX_SHIFT_LENGTH == 50

-----------------------------------------------------------------------------
(* Bounds of the model                                                     *)

\* plateau widths range over 1 .. MaxWidth
MaxWidth == 2

-----------------------------------------------------------------------------
(* Detector settings                                                       *)

\* The settings made by the constructor.
DefaultCfg ==
  [auto_p |-> FALSE,
   initial_track_extent |-> INITIAL_TRACK_EXTENT,
   plateau_lack_tolerance |-> DEFAULT_PLATEAU_LACK_TOLERANCE,
   density_insensitive |-> FALSE,
   density_pruning |-> TRUE,
   min_density |-> DEFAULT_MIN_DENSITY,
   shift_length_pruning |-> TRUE,
   max_shift_length |-> DEFAULT_MAX_SHIFT_LENGTH,
   tailMinSize |-> 0,
   subdiv |-> 1]

\* The settings AmrelTool::addTrackDetector makes on a new detector.
AmrelCfg ==
  [DefaultCfg EXCEPT !.auto_p = TRUE,
                     !.initial_track_extent = 0,
                     !.plateau_lack_tolerance = NOMINAL_PLATEAU_LACK_TOLERANCE,
                     !.max_shift_length = NOMINAL_MAX_SHIFT_LENGTH]

\* Settings reachable through the detector's and the plateau model's setters
\* (setPlateauLackTolerance, switchInitialization, setTailMinSize,
\* setPointsGrid, ..): the ones explored.
Configs ==
  { DefaultCfg,
    AmrelCfg,
    [AmrelCfg EXCEPT !.tailMinSize = 2, !.subdiv = 2,
                     !.plateau_lack_tolerance = 2],
    [DefaultCfg EXCEPT !.initial_track_extent = 0, !.tailMinSize = 2,
                       !.plateau_lack_tolerance = 1],
    [DefaultCfg EXCEPT !.initial_track_extent = 0,
                       !.plateau_lack_tolerance = 0,
                       !.density_insensitive = TRUE,
                       !.density_pruning = FALSE,
                       !.shift_length_pruning = FALSE] }

\* Cell sizes, in half metres: 0.5 m and 1 m.
CellSizes == {1, 2}

\* Scans the raster holds on the right and on the left of a stroke: a
\* raster reduced to the stroke's scan, and a stroke near one border and
\* further than NOBOUNDS_TOLERANCE scans from the other one.
Extents ==
  { <<0, 0>>, <<3, NOBOUNDS_TOLERANCE + 1>>, <<NOBOUNDS_TOLERANCE + 1, 3>> }

\* Input strokes p2 - p1, in cells.
Strokes == { <<5, 0>>, <<6, 0>>, <<7, 0>>, <<3, 5>> }

-----------------------------------------------------------------------------
(* Plateaux, as the detector reads them                                    *)

NULL == [null |-> TRUE]

NoPlateau == [none |-> TRUE]

\* Outcomes of the plateau search on one side scan (after the retries), by
\* the flags the walk reads: getStatus () == PLATEAU_RES_OK,
\* hasEnoughPoints (), bounded (), reliable (), isAccepted (). In order: a
\* bounded road; a bounded road whose plateau is not flagged accepted yet; an
\* unbounded flat area; an unreliable plateau; an obstacle; a lack of points.
ScanKinds ==
  { [ok |-> TRUE, enough |-> TRUE, bnd |-> TRUE, rel |-> TRUE, acc0 |-> TRUE],
    [ok |-> TRUE, enough |-> TRUE, bnd |-> TRUE, rel |-> TRUE, acc0 |-> FALSE],
    [ok |-> TRUE, enough |-> TRUE, bnd |-> FALSE, rel |-> TRUE, acc0 |-> FALSE],
    [ok |-> TRUE, enough |-> TRUE, bnd |-> FALSE, rel |-> FALSE, acc0 |-> FALSE],
    [ok |-> FALSE, enough |-> TRUE, bnd |-> FALSE, rel |-> FALSE, acc0 |-> FALSE],
    [ok |-> FALSE, enough |-> FALSE, bnd |-> FALSE, rel |-> FALSE, acc0 |-> FALSE] }

\* Dominant outcomes of the scans around a stroke: the outcomes above that a
\* homogeneous ground gives.
Terrains == { k \in ScanKinds : k.bnd = k.acc0 /\ k.rel = k.ok }

\* Outcome of one attempt on the central scan: success, estimated width,
\* bounded ().
CentralKinds == [ok : BOOLEAN, width : 1 .. MaxWidth, bnd : BOOLEAN]

\* The plateau a track stores for a side scan.
SidePlateau(k) == [bnd |-> k.bnd, rel |-> k.rel, acc |-> k.acc0]

\* The plateau a track stores for the central scan.
CentralPlateau(c) == [ok |-> c.ok, bnd |-> c.bnd, acc |-> FALSE]

\* Plateau::thinerThan: the estimated width is smaller.
thinerThan(a, b) == a.width < b.width

-----------------------------------------------------------------------------
(* CarriageTrack                                                           *)

NewTrack ==
  [status |-> RESULT_NONE, c |-> NoPlateau, rights |-> <<>>, lefts |-> <<>>]

CT_start(ct, pl) == [ct EXCEPT !.c = pl]

CT_setStatus(ct, st) == [ct EXCEPT !.status = st]

CT_add(ct, onright, pl) ==
  IF onright THEN [ct EXCEPT !.rights = Append(@, pl)]
             ELSE [ct EXCEPT !.lefts = Append(@, pl)]

CT_clear(ct, onright) ==
  IF onright THEN [ct EXCEPT !.rights = <<>>] ELSE [ct EXCEPT !.lefts = <<>>]

CT_plateau(ct, i) ==
  IF i = 0 THEN ct.c
  ELSE IF i < 0 THEN (IF -i <= Len(ct.rights) THEN ct.rights[-i] ELSE NoPlateau)
  ELSE (IF i <= Len(ct.lefts) THEN ct.lefts[i] ELSE NoPlateau)

\* accept (num) / its undoing, on every index of the set I that holds a plateau
CT_mark(ct, I, b) ==
  [ct EXCEPT
     !.c = IF 0 \in I /\ @ # NoPlateau THEN [@ EXCEPT !.acc = b] ELSE @,
     !.rights = [j \in 1 .. Len(@) |->
                   IF -j \in I THEN [@[j] EXCEPT !.acc = b] ELSE @[j]],
     !.lefts = [j \in 1 .. Len(@) |->
                   IF j \in I THEN [@[j] EXCEPT !.acc = b] ELSE @[j]]]

CT_accept(ct, I) == CT_mark(ct, I, TRUE)

CT_indices(ct) == (0 - Len(ct.rights)) .. Len(ct.lefts)

CT_accepted(ct) ==
  { i \in CT_indices(ct) : CT_plateau(ct, i) # NoPlateau /\ CT_plateau(ct, i).acc }

SetMin(S) == CHOOSE x \in S : \A y \in S : x <= y

SetMax(S) == CHOOSE x \in S : \A y \in S : x >= y

\* spread (): extent of the accepted plateaux, in scans
CT_spread(ct) ==
  IF CT_accepted(ct) = {} THEN 0
  ELSE SetMax(CT_accepted(ct)) - SetMin(CT_accepted(ct)) + 1

\* nbHoles (): unaccepted scans between the outermost accepted plateaux
CT_nbHoles(ct) == CT_spread(ct) - Cardinality(CT_accepted(ct))

\* the unbroken runs of length n of accepted plateaux, by their first index
CT_runs(ct, n) ==
  LET A == CT_accepted(ct)
  IN  { i \in CT_indices(ct) : \A j \in i .. (i + n - 1) : j \in A }

\* length of the longest unbroken run of accepted plateaux
CT_longestRun(ct) ==
  LET A == CT_accepted(ct)
      I == CT_indices(ct)
  IN  SetMax({ n \in 0 .. Cardinality(I) :
                 \E i \in I : \A j \in i .. (i + n - 1) : j \in A })

\* prune (tailMinSize): the accepted plateaux beyond the outermost unbroken
\* runs of tailMinSize accepted plateaux are dropped (nothing is left when no
\* such run exists).
CT_pruned(ct, n) ==
  LET R == CT_runs(ct, n)
      lo == SetMin(R)
      hi == SetMax(R) + n - 1
      I == CT_indices(ct)
  IN  IF R = {} THEN CT_mark(ct, I, FALSE)
      ELSE CT_mark(ct, (SetMin(I) .. (lo - 1)) \cup ((hi + 1) .. SetMax(I)),
                   FALSE)

CT_pruneFails(ct, n) == CT_runs(ct, n) = {}

-----------------------------------------------------------------------------
(* Faulty variants of the detector's tests: the properties below are also  *)
(* run against them, to show that they depend on the tests.                *)

\* the stroke length taken in cells, the cell size forgotten
StrokeTooNarrowInCells(s, cs) ==
  s[1] * s[1] + s[2] * s[2] < MAX_TRACK_WIDTH * MAX_TRACK_WIDTH

\* l12 <= MAX_TRACK_WIDTH
StrokeNotLonger(s, cs) ==
  cs * cs * (s[1] * s[1] + s[2] * s[2])
    <= (2 * MAX_TRACK_WIDTH) * (2 * MAX_TRACK_WIDTH)

\* num += (onright ? -2 : 2)
NextNumSkipping(onright, num) == IF onright THEN num - 2 ELSE num + 2

\* ++nbfail > plateau_lack_tolerance
LackLimitExceeded(nbfail, tolerance) == nbfail > tolerance

\* nbHoles () * 100 > spread () * min_density
TooSparseOfDensity(ct) ==
  /\ cfg.density_pruning
  /\ CT_nbHoles(ct) * 100 > CT_spread(ct) * cfg.min_density

-----------------------------------------------------------------------------
(* CTrackDetector: frames and helpers                                      *)

NoPass == [exlimit |-> 0, site |-> "none", firstUnbounded |-> FALSE]

NoAuto == [cpl |-> NoPlateau, found |-> FALSE, ptest |-> 0]

NoScanners == [r |-> 0, l |-> 0, extR |-> 0, extL |-> 0, live |-> 0]

NoTerrain == [none |-> TRUE]

\* no scanner is under study
NoScanner == [none |-> TRUE]

NoOperation == [op |-> "none"]

NoRun == [side |-> "none", scans |-> <<>>]

\* no tool is at work
NoTool == [none |-> TRUE]

NoSeed == [kind |-> "none"]

\* no terrain map assembled, processSawing not running
NoPad == [none |-> TRUE]

NoSaw == [pc |-> "none"]

NoJob == [pc |-> "none"]

NoStore == [none |-> TRUE]

NoPlateaux == [tries |-> <<>>]

\* no scan is being sorted
NoSort == [none |-> TRUE]

AmrelAtRest ==
  /\ pad = NoPad
  /\ saw = NoSaw
  /\ job = NoJob
  /\ store = NoStore
  /\ plt = NoPlateaux
  /\ srt = NoSort

\* scanp.getScanner / discanp.getScanner on a stroke: fresh cursors; the
\* raster holds er scans on the right and el scans on the left.
NewScanners(er, el) ==
  [r |-> 0, l |-> 0, extR |-> er, extL |-> el, live |-> 0]

\* detect (int) lines 252-258 and 352-353, detect () lines 403-408 and
\* 498-499: ds, disp and their copies ds2, disp2 are at work; live counts
\* the scanners made in this call of detect (p1, p2) and not deleted
WithCopies(d) ==
  [NewScanners(d.extR, d.extL) EXCEPT !.live = d.live + 4]

\* detect (int) lines 382-383, detect () lines 534-535: delete ds, delete disp
Deleted(d) == [d EXCEPT !.live = @ - 2]

NoTrack ==
  [site |-> "none", onright |-> FALSE, exlimit |-> 0, num |-> 0,
   search |-> FALSE, nbfail |-> 0, confdist |-> 0]

\* Vr2f p12 (csize * dx, csize * dy); l12 = sqrt (p12.x^2 + p12.y^2);
\* l12 < MAX_TRACK_WIDTH, both sides squared (lengths in half metres).
StrokeTooNarrow(s, cs) ==
  cs * cs * (s[1] * s[1] + s[2] * s[2])
    < (2 * MAX_TRACK_WIDTH) * (2 * MAX_TRACK_WIDTH)

\* The track a pass works on: ict with an extent limit, else fct.
PassTrack(exlimit) == IF exlimit # 0 THEN ict ELSE fct

\* faulty variant: every pass returns to the place of the first one
ReturnSiteFirst(site) == "align"

\* Where a pass returns to: detect (p1, p2) line 150 after the first call,
\* line 216 after the redetection.
ReturnSite(site) == IF site = "redo" THEN "final" ELSE "align"

\* ++nbfail >= plateau_lack_tolerance
LackLimitReached(nbfail, tolerance) == nbfail >= tolerance

\* num += (onright ? -1 : 1)
NextNum(onright, num) == IF onright THEN num - 1 ELSE num + 1

\* shift_length_pruning && relativeShiftLength () > max_shift_length
TooHectic(r) == cfg.shift_length_pruning /\ r > cfg.max_shift_length

\* density_pruning && nbHoles () * 100 > spread () * (100 - min_density)
TooSparse(ct) ==
  /\ cfg.density_pruning
  /\ CT_nbHoles(ct) * 100 > CT_spread(ct) * (100 - cfg.min_density)

\* pc.size (): the central plateau and the reliable plateaux of ict at
\* +/- 1 .. initial_track_extent - 1
AlignPoints(ct, extent) ==
  1 + Cardinality({ i \in (1 - extent) .. (extent - 1) :
                      /\ i # 0
                      /\ CT_plateau(ct, i) # NoPlateau
                      /\ CT_plateau(ct, i).rel })

\* Outcomes the plateau search may have on the next side scan: the terrain
\* is homogeneous but for one scan at most.
Outcomes == IF anomaly THEN {terrain} ELSE ScanKinds

\* detect (p1, p2), lines 216-220: fct->relativeShiftLength () is read
ReadsShiftLength ==
  /\ fct # NULL
  /\ fstatus # RESULT_FAIL_NO_CONSISTENT_SEQUENCE
  /\ cfg.shift_length_pruning

\* Relative shift lengths the global pruning may read, in hundredths.
ShiftLengths == { cfg.max_shift_length, cfg.max_shift_length + 1 }

-----------------------------------------------------------------------------
(* CTrackDetector: operations                                              *)

Init ==
  /\ cfg \in Configs
  /\ csize \in CellSizes
  /\ pc = "idle"
  /\ result = "none"
  /\ ip = <<0, 0>>
  /\ fct = NULL
  /\ ict = NULL
  /\ fstatus = RESULT_NONE
  /\ istatus = RESULT_NONE
  /\ initial_unbounded = TRUE
  /\ pass = NoPass
  /\ au = NoAuto
  /\ tr = NoTrack
  /\ ds = NoScanners
  /\ terrain = NoTerrain
  /\ anomaly = FALSE
  /\ walks = <<>>
  /\ okWidths = {}
  /\ rsl = 0
  /\ sc = NoScanner
  /\ out = <<>>
  /\ last = NoOperation
  /\ run = NoRun
  /\ tool = NoTool
  /\ dmap = NoTool
  /\ heap = NoTool
  /\ seed = NoSeed
  /\ AmrelAtRest

\* detect (p1, p2), lines 126-148: clear (), the stroke length check and the
\* call of detect () or detect (initial_track_extent).
Detect ==
  /\ UNCHANGED <<scanning, asd, amrel, srt>>
  /\ pc = "idle"
  /\ \E s \in Strokes :
       /\ ip' = s
       /\ fct' = NULL
       /\ ict' = NULL
       /\ IF StrokeTooNarrow(s, csize)
          THEN /\ fstatus' = RESULT_FAIL_TOO_NARROW_INPUT
               /\ istatus' = IF cfg.initial_track_extent # 0
                             THEN RESULT_FAIL_TOO_NARROW_INPUT
                             ELSE RESULT_NONE
               /\ result' = "null"
               /\ pc' = "idle"
               /\ pass' = NoPass
               /\ ds' = NoScanners
               /\ terrain' = NoTerrain
          ELSE /\ fstatus' = RESULT_NONE
               /\ istatus' = RESULT_NONE
               /\ result' = "none"
               /\ pc' = "central"
               /\ pass' = [exlimit |-> IF cfg.auto_p THEN 0
                                       ELSE cfg.initial_track_extent,
                           site |-> "first", firstUnbounded |-> FALSE]
               /\ \E e \in Extents : ds' = NewScanners(e[1], e[2])
               /\ terrain' \in Terrains
  /\ anomaly' = FALSE
  /\ walks' = <<>>
  /\ okWidths' = {}
  /\ rsl' = 0
  /\ UNCHANGED <<cfg, csize, initial_unbounded, au, tr>>

\* detect (int exlimit), lines 238-356: the central scan and the central
\* plateau (with its second attempt at the minimal height of the first).
CentralDetect ==
  /\ UNCHANGED <<scanning, asd, amrel, srt>>
  /\ pc = "central"
  /\ ~ cfg.auto_p
  /\ walks' = <<>>
  /\ \E empty \in BOOLEAN, c1 \in CentralKinds, c2 \in CentralKinds,
        noOptimalHeight \in BOOLEAN, keepFirst \in BOOLEAN :
       LET retry == ~ c1.ok /\ ~ noOptimalHeight
           success == c1.ok \/ (retry /\ c2.ok)
           cpl == IF retry /\ c2.ok
                  THEN (IF keepFirst THEN [c1 EXCEPT !.ok = TRUE] ELSE c2)
                  ELSE c1
           started == CT_start(NewTrack, CentralPlateau(cpl))
           ct == IF success THEN CT_accept(started, {0})
                 ELSE CT_setStatus(started, RESULT_FAIL_NO_CENTRAL_PLATEAU)
           st == IF empty THEN RESULT_FAIL_NO_AVAILABLE_SCAN
                 ELSE RESULT_FAIL_NO_CENTRAL_PLATEAU
       IN  /\ empty => (c1 = c2 /\ c1.ok /\ c1.width = 1 /\ c1.bnd
                        /\ noOptimalHeight /\ keepFirst)
           /\ (~ retry \/ ~ c2.ok) => keepFirst
           /\ ~ retry => c2 = c1
           /\ IF pass.exlimit # 0
              THEN /\ ict' = IF empty THEN ict ELSE ct
                   /\ istatus' = IF empty \/ ~ success THEN st ELSE istatus
                   /\ UNCHANGED <<fct, fstatus>>
              ELSE /\ fct' = IF empty THEN fct ELSE ct
                   /\ fstatus' = IF empty \/ ~ success THEN st ELSE fstatus
                   /\ UNCHANGED <<ict, istatus>>
           /\ initial_unbounded' =
                IF ~ empty /\ success /\ cpl.bnd THEN FALSE
                ELSE initial_unbounded
           /\ pc' = IF empty \/ ~ success THEN ReturnSite(pass.site)
                    ELSE "right"
           /\ ds' = IF empty \/ ~ success THEN ds
                    ELSE WithCopies(ds)
  /\ UNCHANGED <<cfg, csize, result, ip, pass, au, tr, terrain, anomaly,
                 okWidths, rsl>>

\* detect (), lines 387-460: the central scan, the new track and the
\* unshifted attempt on the central plateau.
AutoFirst ==
  /\ UNCHANGED <<scanning, asd, amrel, srt>>
  /\ pc = "central"
  /\ cfg.auto_p
  /\ walks' = <<>>
  /\ \E empty \in BOOLEAN, c \in CentralKinds :
       /\ empty => (c.ok /\ c.width = 1 /\ c.bnd)
       /\ IF empty
          THEN /\ fstatus' = RESULT_FAIL_NO_AVAILABLE_SCAN
               /\ pc' = ReturnSite(pass.site)
               /\ UNCHANGED <<fct, au, okWidths>>
          ELSE /\ fct' = NewTrack
               /\ au' = [cpl |-> c, found |-> c.ok, ptest |-> 0]
               /\ okWidths' = IF c.ok THEN {c.width} ELSE {}
               /\ pc' = "probe"
               /\ UNCHANGED fstatus
  /\ UNCHANGED <<cfg, csize, result, ip, ict, istatus,
                 initial_unbounded, pass, tr, ds, terrain, anomaly, rsl>>

\* detect (), lines 461-474: one lateral probe of the central plateau.
AutoProbe ==
  /\ UNCHANGED <<scanning, asd, amrel, srt>>
  /\ pc = "probe"
  /\ au.ptest # NB_SIDE_TRIALS * 2
  /\ \E cpl2 \in CentralKinds :
       /\ au' = [cpl |-> IF cpl2.ok /\ thinerThan(cpl2, au.cpl) THEN cpl2
                         ELSE au.cpl,
                 found |-> au.found \/ cpl2.ok,
                 ptest |-> au.ptest + 1]
       /\ okWidths' = IF cpl2.ok THEN okWidths \cup {cpl2.width} ELSE okWidths
  /\ UNCHANGED <<cfg, csize, pc, result, ip, fct, ict, fstatus, istatus,
                 initial_unbounded, pass, tr, ds, terrain, anomaly, walks,
                 rsl>>

\* detect (), lines 475-499: the kept plateau starts the track.
AutoStart ==
  /\ UNCHANGED <<scanning, asd, amrel, srt>>
  /\ pc = "probe"
  /\ au.ptest = NB_SIDE_TRIALS * 2
  /\ LET started == CT_start(fct, CentralPlateau(au.cpl))
     IN  IF au.found
         THEN /\ fct' = CT_accept(started, {0})
              /\ initial_unbounded' =
                   IF au.cpl.bnd THEN FALSE ELSE initial_unbounded
              /\ pc' = "right"
              /\ ds' = WithCopies(ds)
              /\ UNCHANGED fstatus
         ELSE /\ fct' = CT_setStatus(started, RESULT_FAIL_NO_CENTRAL_PLATEAU)
              /\ fstatus' = RESULT_FAIL_NO_CENTRAL_PLATEAU
              /\ pc' = ReturnSite(pass.site)
              /\ UNCHANGED <<initial_unbounded, ds>>
  /\ au' = NoAuto
  /\ okWidths' = {}
  /\ UNCHANGED <<cfg, csize, result, ip, ict, istatus, pass, tr, terrain,
                 anomaly, walks, rsl>>

\* track (), lines 544-556: the frame of a side walk; the side is cleared.
TrackBegin ==
  /\ UNCHANGED <<scanning, asd, amrel, srt>>
  /\ pc \in {"right", "left", "second"}
  /\ LET onright == pc # "left"
         exlimit == IF onright THEN 0 - pass.exlimit ELSE pass.exlimit
     IN  /\ tr' = [site |-> pc, onright |-> onright, exlimit |-> exlimit,
                   num |-> IF onright THEN -1 ELSE 1,
                   search |-> TRUE, nbfail |-> 0, confdist |-> 1]
         /\ IF exlimit # 0
            THEN ict' = CT_clear(ict, onright) /\ UNCHANGED fct
            ELSE fct' = CT_clear(fct, onright) /\ UNCHANGED ict
         /\ walks' = Append(walks, [side |-> IF onright THEN "R" ELSE "L",
                                    found |-> FALSE])
  /\ pc' = "loop"
  /\ UNCHANGED <<cfg, csize, result, ip, fstatus, istatus,
                 initial_unbounded, pass, au, ds, terrain, anomaly,
                 okWidths, rsl>>

\* What the scanners of the walk deliver next: a scan ("full") or nothing
\* ("empty"). The point scanner ds has its clearance released (line 257), so
\* that nextOnRight / nextOnLeft return the size of the whole vector pix:
\* among the subdiv sub-scans of one iteration only the first one can return
\* 0, and then pix is empty.
ScanResults ==
  LET used == IF tr.onright THEN ds.r ELSE ds.l
      ext == IF tr.onright THEN ds.extR ELSE ds.extL
  IN  IF used < ext THEN {"full"} ELSE {"empty"}

\* ds->nextOnRight / ds2->nextOnLeft: the cursor of the walk's scanner moves
Advance(d, onright) ==
  IF onright THEN [d EXCEPT !.r = @ + 1] ELSE [d EXCEPT !.l = @ + 1]

\* track (), lines 633-637: the failure count after the plateau k
FailCount(k, nbfail) ==
  IF k.ok THEN 0
  ELSE IF cfg.density_insensitive \/ k.enough THEN nbfail + 1
  ELSE nbfail

\* track (), lines 633-637: the walk goes on after the plateau k
LackStop(k, nbfail) ==
  /\ ~ k.ok
  /\ cfg.density_insensitive \/ k.enough
  /\ LackLimitReached(nbfail + 1, cfg.plateau_lack_tolerance)

\* track (), line 642: the plateau sets the start bounds
SetsBounds(k) == k.bnd /\ k.acc0

\* track (), line 649: the walk is at the scan where missing bounds fail it
AtNoBounds(num) == num = NOBOUNDS_TOLERANCE \/ num = 0 - NOBOUNDS_TOLERANCE

\* faulty variant: every plateau of status OK is accepted
AcceptsWhenOk(k) == k.ok

\* track (), line 683: the plateau is accepted
Accepts(k) == k.ok /\ k.rel

\* faulty variant: confdist is never reset
NextConfdistKept(k, confdist) == confdist + 1

\* track (), lines 683-699: confdist = 1 on acceptance, confdist ++ otherwise
NextConfdist(k, confdist) == IF Accepts(k) THEN 1 ELSE confdist + 1

\* track (), lines 687-694: the scans behind num up to the last accepted one
Behind(num, confdist) ==
  { IF num < 0 THEN num + i ELSE num - i : i \in 1 .. (confdist - 1) }

\* The scans behind num whose plateau contains the interpolated centre
\* (lpl->contains (c1 + dc * i)): none, the nearest one or all of them.
Containing(num, confdist) ==
  { {}, Behind(num, confdist),
    Behind(num, confdist) \cap { num - 1, num + 1 } }

\* track (), lines 557-700: one iteration of the walk, where the plateau
\* search of lines 602-629 ends on a plateau of kind k
ScanStep(k) ==
  /\ pc = "loop"
  /\ tr.search
  /\ tr.num # tr.exlimit
  /\ \E scan \in ScanResults :
       IF scan = "empty"
       THEN /\ tr' = [tr EXCEPT !.search = FALSE,
                                !.num = NextNum(tr.onright, tr.num)]
            /\ UNCHANGED <<fct, ict, fstatus, istatus, initial_unbounded, ds,
                           anomaly, walks>>
       ELSE \E retro \in Containing(tr.num, tr.confdist) :
              LET ct == PassTrack(tr.exlimit)
                  added == CT_add(ct, tr.onright, SidePlateau(k))
                  search1 == scan = "full" /\ ~ LackStop(k, tr.nbfail)
                  manage == search1 /\ initial_unbounded
                  nobounds == manage /\ ~ SetsBounds(k) /\ AtNoBounds(tr.num)
                  failed == IF nobounds
                            THEN CT_setStatus(added, RESULT_FAIL_NO_BOUNDS)
                            ELSE added
                  final == IF Accepts(k)
                           THEN CT_accept(failed, {tr.num} \cup retro)
                           ELSE failed
              IN  /\ ~ Accepts(k) => retro = {}
                  /\ tr' = [tr EXCEPT
                              !.search = search1 /\ ~ nobounds,
                              !.nbfail = FailCount(k, tr.nbfail),
                              !.confdist = NextConfdist(k, tr.confdist),
                              !.num = NextNum(tr.onright, tr.num)]
                  /\ initial_unbounded' =
                       IF manage /\ SetsBounds(k) THEN FALSE
                       ELSE initial_unbounded
                  /\ IF tr.exlimit # 0
                     THEN /\ ict' = final
                          /\ istatus' = IF nobounds THEN RESULT_FAIL_NO_BOUNDS
                                        ELSE istatus
                          /\ UNCHANGED <<fct, fstatus>>
                     ELSE /\ fct' = final
                          /\ fstatus' = IF nobounds THEN RESULT_FAIL_NO_BOUNDS
                                        ELSE fstatus
                          /\ UNCHANGED <<ict, istatus>>
                  /\ ds' = Advance(ds, tr.onright)
                  /\ anomaly' = (anomaly \/ k # terrain)
                  /\ walks' = [walks EXCEPT ![Len(walks)].found =
                                 @ \/ (search1 /\ SetsBounds(k))]
  /\ UNCHANGED <<cfg, csize, pc, result, ip, pass, au, terrain,
                 okWidths, rsl>>

\* the walk as the detector's callers see it: one plateau per scan
TrackScan ==
  /\ UNCHANGED <<scanning, asd, amrel, srt>>
  /\ \E k \in Outcomes : ScanStep(k)

\* faulty variant: the attempt shifted to the left comes before the one
\* shifted to the right
PlateauTriesLeftFirst(oks) ==
  IF oks[1] THEN <<[shift |-> 0, ok |-> TRUE, fate |-> "added"]>>
  ELSE IF oks[3]
       THEN <<[shift |-> 0, ok |-> FALSE, fate |-> "deleted"],
              [shift |-> 0 - 1, ok |-> TRUE, fate |-> "added"]>>
  ELSE IF oks[2]
       THEN <<[shift |-> 0, ok |-> FALSE, fate |-> "deleted"],
              [shift |-> 0 - 1, ok |-> FALSE, fate |-> "deleted"],
              [shift |-> 1, ok |-> TRUE, fate |-> "added"]>>
  ELSE <<[shift |-> 0, ok |-> FALSE, fate |-> "added"],
         [shift |-> 0 - 1, ok |-> FALSE, fate |-> "deleted"],
         [shift |-> 1, ok |-> FALSE, fate |-> "deleted"]>>

\* track (), lines 602-629: the Plateau objects made for one scan, in the
\* order of their making, when the attempts with shift 0, with
\* +plateauSearchDistance and with -plateauSearchDistance would have the
\* status OK as oks tells: the shift (in search distances), the status, and
\* whether the plateau is the one left in pl for ct->add or is deleted
PlateauTries(oks) ==
  IF oks[1] THEN <<[shift |-> 0, ok |-> TRUE, fate |-> "added"]>>
  ELSE IF oks[2]
       THEN <<[shift |-> 0, ok |-> FALSE, fate |-> "deleted"],
              [shift |-> 1, ok |-> TRUE, fate |-> "added"]>>
  ELSE IF oks[3]
       THEN <<[shift |-> 0, ok |-> FALSE, fate |-> "deleted"],
              [shift |-> 1, ok |-> FALSE, fate |-> "deleted"],
              [shift |-> 0 - 1, ok |-> TRUE, fate |-> "added"]>>
  ELSE <<[shift |-> 0, ok |-> FALSE, fate |-> "added"],
         [shift |-> 1, ok |-> FALSE, fate |-> "deleted"],
         [shift |-> 0 - 1, ok |-> FALSE, fate |-> "deleted"]>>

\* the walk with its plateau search: the three attempts of the scan, and
\* the plateau they leave
WalkScan ==
  /\ \E k \in Outcomes, oks \in [1 .. 3 -> BOOLEAN] :
       /\ k.ok = (oks[1] \/ oks[2] \/ oks[3])
       /\ ScanStep(k)
       /\ plt' = IF ScanResults = {"empty"} THEN NoPlateaux
                 ELSE [tries |-> PlateauTries(oks), pl |-> k,
                       num |-> tr.num, confdist |-> tr.confdist]
  /\ UNCHANGED <<scanning, asd, pad, saw, job, store, srt>>

\* detect (int) lines 357-375, detect () lines 503-528: a walk has returned;
\* the left walk follows the right one, and the right walk is made again
\* when it ended unbounded and the left one found bounds.
TrackReturn ==
  /\ UNCHANGED <<scanning, asd, amrel, srt>>
  /\ pc = "loop"
  /\ ~ (tr.search /\ tr.num # tr.exlimit)
  /\ IF tr.site = "right"
     THEN /\ pass' = [pass EXCEPT !.firstUnbounded = initial_unbounded]
          /\ pc' = "left"
     ELSE /\ pass' = pass
          /\ pc' = IF tr.site = "left" /\ pass.firstUnbounded
                                       /\ ~ initial_unbounded
                   THEN "second" ELSE "prune"
  /\ tr' = NoTrack
  /\ UNCHANGED <<cfg, csize, result, ip, fct, ict, fstatus, istatus,
                 initial_unbounded, au, ds, terrain, anomaly, walks,
                 okWidths, rsl>>

\* detect (int) lines 376-384, detect () lines 529-536: the tail pruning.
Prune ==
  /\ UNCHANGED <<scanning, asd, amrel, srt>>
  /\ pc = "prune"
  /\ LET ct == PassTrack(pass.exlimit)
         fails == cfg.tailMinSize # 0 /\ CT_pruneFails(ct, cfg.tailMinSize)
         pruned == IF cfg.tailMinSize # 0 THEN CT_pruned(ct, cfg.tailMinSize)
                   ELSE ct
         after == IF fails
                  THEN CT_setStatus(pruned, RESULT_FAIL_NO_CONSISTENT_SEQUENCE)
                  ELSE pruned
     IN  IF pass.exlimit # 0
         THEN /\ ict' = after
              /\ istatus' = IF fails THEN RESULT_FAIL_NO_CONSISTENT_SEQUENCE
                            ELSE istatus
              /\ UNCHANGED <<fct, fstatus>>
         ELSE /\ fct' = after
              /\ fstatus' = IF fails THEN RESULT_FAIL_NO_CONSISTENT_SEQUENCE
                            ELSE fstatus
              /\ UNCHANGED <<ict, istatus>>
  /\ ds' = Deleted(ds)
  /\ pc' = ReturnSite(pass.site)
  /\ walks' = <<>>
  /\ UNCHANGED <<cfg, csize, result, ip, initial_unbounded, pass, au,
                 tr, terrain, anomaly, okWidths, rsl>>

\* detect (p1, p2), lines 150-215: with an initial track that has a central
\* plateau, the stroke is re-aligned and the detection made again when more
\* than initial_track_extent reliable plateaux support the alignment.
Align ==
  /\ UNCHANGED <<scanning, asd, amrel, srt>>
  /\ pc = "align"
  /\ IF /\ ict # NULL
        /\ istatus # RESULT_FAIL_NO_CENTRAL_PLATEAU
        /\ AlignPoints(ict, cfg.initial_track_extent)
             > cfg.initial_track_extent
     THEN /\ pc' = "central"
          /\ pass' = [exlimit |-> 0, site |-> "redo", firstUnbounded |-> FALSE]
     ELSE /\ pc' = "final"
          /\ pass' = pass
  /\ UNCHANGED <<cfg, csize, result, ip, fct, ict, fstatus, istatus,
                 initial_unbounded, au, tr, ds, terrain, anomaly, walks,
                 okWidths, rsl>>

\* detect (p1, p2), lines 216-235: the global pruning and the return.
Final ==
  /\ UNCHANGED <<scanning, asd, amrel, srt>>
  /\ pc = "final"
  /\ \E r \in ShiftLengths :
       /\ rsl' = IF ReadsShiftLength THEN r ELSE 0
       /\ ~ ReadsShiftLength => r = cfg.max_shift_length
       /\ IF fct = NULL
          THEN /\ result' = "null"
               /\ UNCHANGED <<fct, fstatus>>
          ELSE IF fstatus = RESULT_FAIL_NO_CONSISTENT_SEQUENCE
          THEN /\ result' = "null"
               /\ UNCHANGED <<fct, fstatus>>
          ELSE IF TooHectic(r)
          THEN /\ fct' = CT_setStatus(fct, RESULT_FAIL_TOO_HECTIC_PLATEAUX)
               /\ fstatus' = RESULT_FAIL_TOO_HECTIC_PLATEAUX
               /\ result' = "null"
          ELSE IF TooSparse(fct)
          THEN /\ fct' = CT_setStatus(fct, RESULT_FAIL_TOO_SPARSE_PLATEAUX)
               /\ fstatus' = RESULT_FAIL_TOO_SPARSE_PLATEAUX
               /\ result' = "null"
          ELSE /\ result' = "track"
               /\ UNCHANGED <<fct, fstatus>>
  /\ pc' = "idle"
  /\ pass' = NoPass
  /\ UNCHANGED <<cfg, csize, ip, ict, istatus, initial_unbounded, au, tr, ds,
                 terrain, anomaly, walks, okWidths>>

Next ==
  \/ Detect
  \/ CentralDetect
  \/ AutoFirst
  \/ AutoProbe
  \/ AutoStart
  \/ TrackBegin
  \/ TrackScan
  \/ TrackReturn
  \/ Prune
  \/ Align
  \/ Final

Spec == Init /\ [][Next]_vars

\* The same detector seen at the level of the Plateau objects of each scan,
\* with the default settings (no automatic search of the central plateau),
\* on cells of 1 m
WalkInit == Init /\ cfg = DefaultCfg /\ csize = 2

WalkNext ==
  \/ Detect
  \/ CentralDetect
  \/ TrackBegin
  \/ WalkScan
  \/ TrackReturn
  \/ Prune
  \/ Align
  \/ Final

WalkSpec == WalkInit /\ [][WalkNext]_vars

\* The steps of a running call of detect (p1, p2)
Running ==
  \/ CentralDetect
  \/ AutoFirst
  \/ AutoProbe
  \/ AutoStart
  \/ TrackBegin
  \/ TrackScan
  \/ TrackReturn
  \/ Prune
  \/ Align
  \/ Final

\* The detector whose running call is never left waiting: the call is made
\* by one thread that goes on until detect (p1, p2) returns. The settings
\* are those of the constructor and those of AmrelTool, on cells of 1 m.
LiveInit == Init /\ cfg \in {AmrelCfg, DefaultCfg} /\ csize = 2

LiveSpec == LiveInit /\ [][Next]_vars /\ WF_vars(Running)

-----------------------------------------------------------------------------
(* Properties of CTrackDetector::detect (p1, p2)                           *)

\* detect (p1, p2) has returned
Returned == pc = "idle" /\ result # "none"

\* squared metric length of the input stroke, in half metres (6 m is 12)
StrokeLength2 == csize * csize * (ip[1] * ip[1] + ip[2] * ip[2])

\* the side of its track the running walk fills
WalkedSide ==
  IF tr.onright THEN PassTrack(tr.exlimit).rights
  ELSE PassTrack(tr.exlimit).lefts

Abs(n) == IF n < 0 THEN 0 - n ELSE n

\* C1: a stroke whose metric length is below 6 m makes detect (p1, p2) return
\* null, with RESULT_FAIL_TOO_NARROW_INPUT as final status and with neither a
\* final nor an initial track.
C1_NarrowStrokeRejected ==
  (Returned /\ StrokeLength2 < 12 * 12) =>
    /\ result = "null"
    /\ fstatus = RESULT_FAIL_TOO_NARROW_INPUT
    /\ fct = NULL
    /\ ict = NULL

\* a 5.83 m stroke (3 by 5 cells of 1 m) rejected by a detector that has
\* found bounds in an earlier detection
C1_Witness ==
  /\ Returned
  /\ ip = <<3, 5>>
  /\ csize = 2
  /\ fstatus = RESULT_FAIL_TOO_NARROW_INPUT
  /\ ~ initial_unbounded

\* C2: whenever detect (p1, p2) ends with a failure as final status, it
\* returns null.
C2_FailureReturnsNull == (Returned /\ fstatus < 0) => result = "null"

\* C3: a side walk starts on an empty side at scan -1 (right) or 1 (left);
\* each iteration moves to the next scan outwards, and either adds one
\* plateau, which is then the plateau of the iteration's scan index, or adds
\* none and ends the walk.
C3_MonotoneWalk ==
  [][ /\ (pc # "loop" /\ pc' = "loop") =>
           /\ Len(WalkedSide') = 0
           /\ tr'.num = (IF tr'.onright THEN -1 ELSE 1)
      /\ (pc = "loop" /\ pc' = "loop") =>
           /\ tr'.num = (IF tr.onright THEN tr.num - 1 ELSE tr.num + 1)
           /\ \/ /\ Len(WalkedSide') = Len(WalkedSide) + 1
                 /\ Len(WalkedSide') = Abs(tr.num)
              \/ /\ Len(WalkedSide') = Len(WalkedSide)
                 /\ ~ tr'.search ]_vars

\* a left walk that added the plateaux 1, 2, 3 and ended on the scan 4,
\* which added none
C3_Witness ==
  /\ pc = "loop"
  /\ ~ tr.onright
  /\ ~ tr.search
  /\ tr.num = 5
  /\ Len(WalkedSide) = 3

\* C4 (as stated, for a positive tolerance): a walk stops as soon as
\* confdist - 1 reaches plateau_lack_tolerance, and confdist - 1 never
\* exceeds it.
C4_ConfdistBounded ==
  (pc = "loop" /\ cfg.plateau_lack_tolerance > 0) =>
    /\ tr.confdist - 1 <= cfg.plateau_lack_tolerance
    /\ tr.search => tr.confdist - 1 < cfg.plateau_lack_tolerance

\* C4 (amended): the walk counts in nbfail the consecutive plateaux that
\* failed although they had enough points (any failed plateau when the
\* detector is density insensitive); nbfail is at most confdist - 1, the walk
\* stops as soon as nbfail reaches plateau_lack_tolerance, and nbfail only
\* exceeds the tolerance when the tolerance is 0 (the first failure stops the
\* walk).
C4_FailuresBounded ==
  pc = "loop" =>
    /\ tr.nbfail <= tr.confdist - 1
    /\ tr.search => (tr.nbfail = 0 \/ tr.nbfail < cfg.plateau_lack_tolerance)
    /\ tr.nbfail <= cfg.plateau_lack_tolerance \/ tr.nbfail = 1

\* a walk stopped by two failures in a row, three scans after the last
\* accepted plateau
C4_Witness ==
  /\ pc = "loop"
  /\ ~ tr.search
  /\ cfg.plateau_lack_tolerance = 2
  /\ tr.nbfail = 2
  /\ tr.confdist - 1 = 3

\* C5: in a detection pass the left side is walked once and the right side
\* once or twice; the right side is walked twice exactly when the central
\* plateau is not bounded, the first right walk met no bounded accepted
\* plateau and the left walk met one.
C5_SecondChance ==
  pc = "prune" =>
    LET R == { i \in DOMAIN walks : walks[i].side = "R" }
        L == { i \in DOMAIN walks : walks[i].side = "L" }
    IN  /\ Cardinality(L) = 1
        /\ Cardinality(R) \in {1, 2}
        /\ (Cardinality(R) = 2) <=>
             /\ ~ PassTrack(pass.exlimit).c.bnd
             /\ ~ walks[1].found
             /\ walks[2].found

\* C6: with both prunings on, a returned track has a relative shift length of
\* max_shift_length at most and holes * 100 <= spread * (100 - min_density);
\* a track that fails the first test makes detect return null with
\* TOO_HECTIC_PLATEAUX, one that passes it and fails the second with
\* TOO_SPARSE_PLATEAUX.
C6_GlobalPruning ==
  Returned =>
    /\ (result = "track" /\ cfg.shift_length_pruning /\ cfg.density_pruning) =>
         /\ rsl <= cfg.max_shift_length
         /\ CT_nbHoles(fct) * 100
              <= CT_spread(fct) * (100 - cfg.min_density)
    /\ fstatus = RESULT_FAIL_TOO_HECTIC_PLATEAUX =>
         /\ result = "null"
         /\ rsl > cfg.max_shift_length
    /\ fstatus = RESULT_FAIL_TOO_SPARSE_PLATEAUX =>
         /\ result = "null"
         /\ cfg.shift_length_pruning => rsl <= cfg.max_shift_length
         /\ CT_nbHoles(fct) * 100
              > CT_spread(fct) * (100 - cfg.min_density)

\* a track with holes, within the density, returned with both prunings on
C6_Witness ==
  /\ Returned
  /\ result = "track"
  /\ cfg.shift_length_pruning
  /\ cfg.density_pruning
  /\ CT_nbHoles(fct) > 0

\* C7: with tailMinSize > 0 a returned track has an unbroken run of at least
\* tailMinSize accepted plateaux, and detect returns null when the final
\* status is NO_CONSISTENT_SEQUENCE.
C7_TailRun ==
  Returned =>
    /\ (result = "track" /\ cfg.tailMinSize > 0) =>
         CT_longestRun(fct) >= cfg.tailMinSize
    /\ fstatus = RESULT_FAIL_NO_CONSISTENT_SEQUENCE => result = "null"

\* C8: in automatic mode, once the unshifted attempt and the
\* 2 * NB_SIDE_TRIALS probes are made, the kept central plateau is a
\* successful one and the thinnest of the successful ones, if any succeeded.
C8_ThinnestSuccessKept ==
  (pc = "probe" /\ au.ptest = 2 * NB_SIDE_TRIALS /\ okWidths # {}) =>
    /\ au.cpl.ok
    /\ au.cpl.width = SetMin(okWidths)

\* C9: without the automatic mode and with initial_track_extent > 0, a call
\* whose stroke passes the length check and whose initial detection found a
\* central plateau ends with a final track or a final failure status.
C9_RedetectionAlways ==
  ( /\ Returned
    /\ ~ cfg.auto_p
    /\ cfg.initial_track_extent > 0
    /\ StrokeLength2 >= 12 * 12
    /\ ict # NULL
    /\ ict.c.ok ) =>
      (fct # NULL \/ fstatus # RESULT_NONE)

\* C10 (as stated): a stroke of exactly 6 m is rejected with TOO_NARROW_INPUT
\* and a stroke one cell longer passes the length check.
C10_SixMetresRejected ==
  /\ (Returned /\ StrokeLength2 = 12 * 12) =>
       (result = "null" /\ fstatus = RESULT_FAIL_TOO_NARROW_INPUT)
  /\ (Returned /\ csize = 2 /\ ip = <<7, 0>>) =>
       fstatus # RESULT_FAIL_TOO_NARROW_INPUT

\* C10 (amended): a stroke of exactly 6 m passes the length check, as any
\* longer one does; only the strokes shorter than 6 m are stopped by it.
C10_SixMetresPass ==
  /\ (Returned /\ StrokeLength2 >= 12 * 12) =>
       fstatus # RESULT_FAIL_TOO_NARROW_INPUT
  /\ pc # "idle" => StrokeLength2 >= 12 * 12

\* a track returned for a stroke of exactly 6 m (6 cells of 1 m)
C10_Witness ==
  /\ Returned
  /\ StrokeLength2 = 12 * 12
  /\ result = "track"
  /\ fstatus = RESULT_NONE

-----------------------------------------------------------------------------
(* Part 2: the adaptive directional scanner of the second octant           *)
(*   src/src/DirectionalScanner/adaptivescannero2.cpp                      *)
(* A scanner is a record of the fields of AdaptiveScannerO2 and of its     *)
(* base class DirectionalScanner; the pointers lst2, rst2 into the pattern *)
(* steps are indices 0 .. nbs - 1. The base class is not part of the       *)
(* sources at hand: its constructor is taken to store the rectangle and    *)
(* the pattern, to set both cursors on the given point and to switch the   *)
(* clearance on.                                                           *)

\* skip lengths of skipLeft / skipRight range over 1 .. MaxSkip
MaxSkip == 2
\* the cursors are followed up to Margin rows beyond the rectangle
Margin == 1

\* C++ integer division (truncation towards zero)
CDiv(x, y) ==
  IF (x >= 0) = (y > 0) THEN (IF x >= 0 THEN x ELSE 0 - x) \div
                             (IF y > 0 THEN y ELSE 0 - y)
  ELSE 0 - ((IF x >= 0 THEN x ELSE 0 - x) \div (IF y > 0 THEN y ELSE 0 - y))

\* DirectionalScanner (xmin, ymin, xmax, ymax, nbs, steps, x, y)
BaseScanner(r, steps, x, y) ==
  [xmin |-> r[1], ymin |-> r[2], xmax |-> r[3], ymax |-> r[4],
   nbs |-> Len(steps), steps |-> steps,
   dla |-> 0, dlb |-> 0, dlc1 |-> 0, dlc2 |-> 0,
   templ_a |-> 0, templ_b |-> 0, templ_nu |-> 0,
   lcx |-> x, lcy |-> y, lst2 |-> 0, rcx |-> x, rcy |-> y, rst2 |-> 0,
   clearance |-> TRUE]

\* dla * x + dlb * y
Val(s, x, y) == s.dla * x + s.dlb * y

\* *st
StepAt(s, st) == s.steps[st + 1]

\* if (*nst) y++; x--; if (++nst >= fs) nst = steps;
StepOn(s, p) ==
  <<p[1] - 1, IF StepAt(s, p[3]) THEN p[2] + 1 ELSE p[2], (p[3] + 1) % s.nbs>>

\* if (--st < steps) st = steps + nbs - 1; if (*st) y--; x++;
StepBack(s, p) ==
  LET st == (p[3] + s.nbs - 1) % s.nbs
  IN  <<p[1] + 1, IF StepAt(s, st) THEN p[2] - 1 ELSE p[2], st>>

\* Constructor from a start point and the bound c (lines 25-44).
ScannerFromBound(r, a, b, c, steps, sx, sy) ==
  LET s == BaseScanner(r, steps, sx, sy)
  IN  [s EXCEPT !.dla = a, !.dlb = b, !.dlc2 = c, !.dlc1 = a * sx + b * sy,
                !.templ_a = a, !.templ_b = b,
                !.templ_nu = (a * sx + b * sy) - c]

RECURSIVE CentralStart(_, _, _)
\* do .. while (dla * lcx + dlb * lcy < c1) (lines 74-80)
CentralStart(s, c1, p) ==
  LET q == StepBack(s, p)
  IN  IF Val(s, q[1], q[2]) < c1 THEN CentralStart(s, c1, q) ELSE q

\* Constructor from a centre and two bounds (lines 47-87).
ScannerFromBounds(r, a, b, c1, c2, steps, cx, cy) ==
  LET hi == IF c2 > c1 THEN c2 ELSE c1
      lo == IF c2 > c1 THEN c1 ELSE c2
      s == [BaseScanner(r, steps, cx, cy) EXCEPT
              !.dla = a, !.dlb = b, !.dlc1 = hi, !.dlc2 = lo,
              !.templ_a = a, !.templ_b = b, !.templ_nu = hi - lo]
      q == CentralStart(s, hi, <<cx, cy, 0>>)
  IN  [s EXCEPT !.lcx = q[1], !.lcy = q[2], !.lst2 = q[3],
                !.rcx = q[1], !.rcy = q[2], !.rst2 = q[3]]

RECURSIVE StepsBack(_, _, _)
\* for (i < w_2) { --st; if (*st) lcy--; lcx++; } (lines 104-109)
StepsBack(s, n, p) == IF n = 0 THEN p ELSE StepsBack(s, n - 1, StepBack(s, p))

RECURSIVE StepsOn(_, _, _)
\* while (w_2-- > 0) { if (*st) cy++; cx--; ++st; } (lines 116-121)
StepsOn(s, n, p) == IF n = 0 THEN p ELSE StepsOn(s, n - 1, StepOn(s, p))

\* Constructor from a centre and a length (lines 90-130).
ScannerFromLength(r, a, b, steps, cx, cy, length) ==
  LET s == [BaseScanner(r, steps, cx, cy) EXCEPT !.dla = a, !.dlb = b]
      w_2 == CDiv(length + 1, 2)
      q == StepsBack(s, w_2, <<cx, cy, 0>>)
      u == StepsOn(s, w_2, <<cx, cy, 0>>)
      c1 == Val(s, q[1], q[2])
      c2 == Val(s, u[1], u[2])
  IN  [s EXCEPT !.dlc1 = c1, !.dlc2 = c2,
                !.templ_a = a, !.templ_b = b, !.templ_nu = c1 - c2,
                !.lcx = q[1], !.lcy = q[2], !.lst2 = q[3],
                !.rcx = q[1], !.rcy = q[2], !.rst2 = q[3]]

\* Faulty variant: the part of the scan before the area is not passed over.
ScanStartAtCursor(s, p) == p

RECURSIVE ScanStart(_, _)
\* while ((y < ymin || x >= xmax) && dla * x + dlb * y >= dlc2): the part
\* of the scan before the rectangle is passed over (lines 154-159).
ScanStart(s, p) ==
  IF (p[2] < s.ymin \/ p[1] >= s.xmax) /\ Val(s, p[1], p[2]) >= s.dlc2
  THEN ScanStart(s, StepOn(s, p))
  ELSE p

RECURSIVE ScanPixelsToBorder(_, _)
\* Faulty variant: a scan goes on to the border of the area.
ScanPixelsToBorder(s, p) ==
  IF p[2] < s.ymax /\ p[1] >= s.xmin
  THEN <<(<<p[1], p[2]>>)>> \o ScanPixelsToBorder(s, StepOn(s, p))
  ELSE <<>>

RECURSIVE ScanPixels(_, _)
\* while (dla * x + dlb * y >= dlc2 && y < ymax && x >= xmin) push_back
\* (lines 160-166).
ScanPixels(s, p) ==
  IF Val(s, p[1], p[2]) >= s.dlc2 /\ p[2] < s.ymax /\ p[1] >= s.xmin
  THEN <<(<<p[1], p[2]>>)>> \o ScanPixels(s, StepOn(s, p))
  ELSE <<>>

\* The scan that starts at cursor p.
ScanFrom(s, p) == ScanPixels(s, ScanStart(s, p))

RECURSIVE SlideOn(_, _)
\* while (cx > xmin && cy < ymax && dla * cx + dlb * cy > dlc1)
\* (lines 177-182).
SlideOn(s, p) ==
  IF p[1] > s.xmin /\ p[2] < s.ymax /\ Val(s, p[1], p[2]) > s.dlc1
  THEN SlideOn(s, StepOn(s, p))
  ELSE p

RECURSIVE SlideBack(_, _)
\* while (cx < xmax - 1 && cy >= ymin && dla * cx + dlb * cy < dlc1)
\* (lines 183-188).
SlideBack(s, p) ==
  IF p[1] < s.xmax - 1 /\ p[2] >= s.ymin /\ Val(s, p[1], p[2]) < s.dlc1
  THEN SlideBack(s, StepBack(s, p))
  ELSE p

\* The cursor put back on the control line.
Anchor(s, p) == SlideBack(s, SlideOn(s, p))

LeftCursor(s) == <<s.lcx, s.lcy, s.lst2>>
RightCursor(s) == <<s.rcx, s.rcy, s.rst2>>
WithLeft(s, p) == [s EXCEPT !.lcx = p[1], !.lcy = p[2], !.lst2 = p[3]]
WithRight(s, p) == [s EXCEPT !.rcx = p[1], !.rcy = p[2], !.rst2 = p[3]]

\* Faulty variant: the vector is never cleared.
ClearedNever(s, scan) == scan

\* if (clearance) scan.clear ();
Cleared(s, scan) == IF s.clearance THEN <<>> ELSE scan

\* Each operation gives the scanner, the vector and the value returned.
\* int first (scan) const
first(s, scan) ==
  LET v == scan \o ScanFrom(s, LeftCursor(s))
  IN  [sc |-> s, out |-> v, ret |-> Len(v)]

\* Faulty variant: the left cursor is not moved to the next line.
nextOnLeftInPlace(s, scan) ==
  LET p == Anchor(s, <<s.lcx, s.lcy, s.lst2>>)
      v == Cleared(s, scan) \o ScanFrom(s, p)
  IN  [sc |-> WithLeft(s, p), out |-> v, ret |-> Len(v)]

\* int nextOnLeft (scan)
nextOnLeft(s, scan) ==
  LET p == Anchor(s, <<s.lcx, s.lcy - 1, s.lst2>>)
      v == Cleared(s, scan) \o ScanFrom(s, p)
  IN  [sc |-> WithLeft(s, p), out |-> v, ret |-> Len(v)]

\* int nextOnRight (scan)
nextOnRight(s, scan) ==
  LET p == Anchor(s, <<s.rcx, s.rcy + 1, s.rst2>>)
      v == Cleared(s, scan) \o ScanFrom(s, p)
  IN  [sc |-> WithRight(s, p), out |-> v, ret |-> Len(v)]

\* Faulty variant: the left cursor is moved by skip - 1 lines.
skipLeftShort(s, scan, skip) ==
  LET p == Anchor(s, <<s.lcx, s.lcy - (skip - 1), s.lst2>>)
      v == Cleared(s, scan) \o ScanFrom(s, p)
  IN  [sc |-> WithLeft(s, p), out |-> v, ret |-> Len(v)]

\* int skipLeft (scan, skip)
skipLeft(s, scan, skip) ==
  LET p == Anchor(s, <<s.lcx, s.lcy - skip, s.lst2>>)
      v == Cleared(s, scan) \o ScanFrom(s, p)
  IN  [sc |-> WithLeft(s, p), out |-> v, ret |-> Len(v)]

\* int skipRight (scan, skip)
skipRight(s, scan, skip) ==
  LET p == Anchor(s, <<s.rcx, s.rcy + skip, s.rst2>>)
      v == Cleared(s, scan) \o ScanFrom(s, p)
  IN  [sc |-> WithRight(s, p), out |-> v, ret |-> Len(v)]

\* void skipLeft (skip)
skipLeftBlind(s, skip) == [s EXCEPT !.lcy = @ - (skip - 1)]

\* void skipRight (skip)
skipRightBlind(s, skip) == [s EXCEPT !.rcy = @ + (skip - 1)]

\* The thickness bindTo gives to the direction (a, b) (lines 354-365).
BoundThickness(s, a, b) ==
  LET old_b == IF s.templ_b < 0 THEN 0 - s.templ_b ELSE s.templ_b
      old_n1 == s.templ_a + old_b
      old_ninf == IF old_b > s.templ_a THEN old_b ELSE s.templ_a
      new_a == IF a < 0 THEN 0 - a ELSE a
      new_b == IF b < 0 THEN 0 - b ELSE b
      new_n1 == new_a + new_b
      new_ninf == IF new_b > new_a THEN new_b ELSE new_a
  IN  IF new_n1 * old_ninf > old_n1 * new_ninf
      THEN CDiv(s.templ_nu * new_n1, old_n1)
      ELSE CDiv(s.templ_nu * new_ninf, old_ninf)

\* Faulty variant: the direction and the thickness bound to become the
\* template.
bindToAsTemplate(s, a, b, c) ==
  LET cc == IF a < 0 THEN 0 - c ELSE c
      nu == BoundThickness(s, a, b)
  IN  [s EXCEPT !.dla = IF a < 0 THEN 0 - a ELSE a,
                !.dlb = IF a < 0 THEN 0 - b ELSE b,
                !.dlc1 = cc + CDiv(nu, 2),
                !.dlc2 = cc - CDiv(nu, 2),
                !.templ_a = IF a < 0 THEN 0 - a ELSE a,
                !.templ_b = IF a < 0 THEN 0 - b ELSE b,
                !.templ_nu = nu]

\* void bindTo (a, b, c)
bindTo(s, a, b, c) ==
  LET cc == IF a < 0 THEN 0 - c ELSE c
      nu == BoundThickness(s, a, b)
  IN  [s EXCEPT !.dla = IF a < 0 THEN 0 - a ELSE a,
                !.dlb = IF a < 0 THEN 0 - b ELSE b,
                !.dlc1 = cc + CDiv(nu, 2),
                !.dlc2 = cc - CDiv(nu, 2)]

\* ds->releaseClearance () (ctrackdetector.cpp, line 257)
releaseClearance(s) == [s EXCEPT !.clearance = FALSE]

-----------------------------------------------------------------------------
(* AdaptiveScannerO2: the scanner at work                                  *)

\* scan area: xmin, ymin, xmax, ymax
Area == <<0, 0, 6, 5>>

\* The scanners under study: directions of the second octant with their
\* patterns, built by each of the three constructors; the central scan of
\* the fourth one starts beyond the right border of the area.
Scanners ==
  { ScannerFromBound(Area, 1, 0, 1, <<FALSE>>, 4, 2),
    ScannerFromBound(Area, 2, -1, 0, <<TRUE, FALSE>>, 4, 1),
    ScannerFromBounds(Area, 2, -1, 2, 9, <<FALSE, TRUE>>, 2, 2),
    ScannerFromBounds(Area, 3, -1, 14, 2, <<FALSE, TRUE, FALSE>>, 5, 1),
    ScannerFromLength(Area, 3, -1, <<FALSE, TRUE, FALSE>>, 3, 2, 4),
    ScannerFromLength(Area, 1, -1, <<TRUE>>, 3, 2, 3) }

\* Directions bindTo is called with: the one of the template, its opposite,
\* and a steeper one.
BindDirections(s) ==
  { <<s.templ_a, s.templ_b>>, <<0 - s.templ_a, 0 - s.templ_b>>,
    <<s.templ_a + 1, s.templ_b>> }

\* Position bindTo is called with (for a direction with a >= 0).
BindShifts == { 4 }

\* What the caller's vector holds before a call.
Priors == { <<>>, <<(<<0, 0>>)>> }

Pixels(scan) == { scan[i] : i \in 1 .. Len(scan) }

\* The scan a call added to the vector, kept being what the vector held.
Added(kept, v) == SubSeq(v, Len(kept) + 1, Len(v))

Operation(op, n, prior, kept, r) ==
  [op |-> op, n |-> n, prior |-> prior, ret |-> r.ret,
   pixels |-> Added(kept, r.out)]

ScanInit ==
  /\ cfg = DefaultCfg
  /\ csize = 1
  /\ pc = "idle"
  /\ result = "none"
  /\ ip = <<0, 0>>
  /\ fct = NULL
  /\ ict = NULL
  /\ fstatus = RESULT_NONE
  /\ istatus = RESULT_NONE
  /\ initial_unbounded = TRUE
  /\ pass = NoPass
  /\ au = NoAuto
  /\ tr = NoTrack
  /\ ds = NoScanners
  /\ terrain = NoTerrain
  /\ anomaly = FALSE
  /\ walks = <<>>
  /\ okWidths = {}
  /\ rsl = 0
  /\ sc \in Scanners
  /\ out = <<>>
  /\ last = NoOperation
  /\ run = NoRun
  /\ tool = NoTool
  /\ dmap = NoTool
  /\ heap = NoTool
  /\ seed = NoSeed
  /\ AmrelAtRest

\* first (out)
ScanFirst ==
  /\ UNCHANGED <<ctdet, asd, amrel, srt>>
  /\ \E prior \in Priors :
       LET r == first(sc, prior)
       IN  /\ sc' = r.sc
           /\ out' = r.out
           /\ last' = Operation("first", 0, prior, prior, r)
           /\ run' = [side |-> "first",
                      scans |-> <<Pixels(Added(prior, r.out))>>]

\* nextOnLeft (out)
ScanNextOnLeft ==
  /\ UNCHANGED <<ctdet, asd, amrel, srt>>
  /\ sc.lcy - 1 >= sc.ymin - Margin
  /\ \E prior \in Priors :
       LET r == nextOnLeft(sc, prior)
           o == Operation("nextOnLeft", 1, prior, Cleared(sc, prior), r)
       IN  /\ sc' = r.sc
           /\ out' = r.out
           /\ last' = o
           /\ run' = IF run.side \in {"first", "left"}
                     THEN [side |-> "left",
                           scans |-> Append(run.scans, Pixels(o.pixels))]
                     ELSE NoRun

\* nextOnRight (out)
ScanNextOnRight ==
  /\ UNCHANGED <<ctdet, asd, amrel, srt>>
  /\ sc.rcy + 1 < sc.ymax + Margin
  /\ \E prior \in Priors :
       LET r == nextOnRight(sc, prior)
           o == Operation("nextOnRight", 1, prior, Cleared(sc, prior), r)
       IN  /\ sc' = r.sc
           /\ out' = r.out
           /\ last' = o
           /\ run' = IF run.side \in {"first", "right"}
                     THEN [side |-> "right",
                           scans |-> Append(run.scans, Pixels(o.pixels))]
                     ELSE NoRun

\* skipLeft (out, skip)
ScanSkipLeft ==
  /\ UNCHANGED <<ctdet, asd, amrel, srt>>
  /\ \E prior \in Priors, skip \in 1 .. MaxSkip :
       /\ sc.lcy - skip >= sc.ymin - Margin
       /\ LET r == skipLeft(sc, prior, skip)
          IN  /\ sc' = r.sc
              /\ out' = r.out
              /\ last' = Operation("skipLeft", skip, prior,
                                   Cleared(sc, prior), r)
              /\ run' = NoRun

\* skipRight (out, skip)
ScanSkipRight ==
  /\ UNCHANGED <<ctdet, asd, amrel, srt>>
  /\ \E prior \in Priors, skip \in 1 .. MaxSkip :
       /\ sc.rcy + skip < sc.ymax + Margin
       /\ LET r == skipRight(sc, prior, skip)
          IN  /\ sc' = r.sc
              /\ out' = r.out
              /\ last' = Operation("skipRight", skip, prior,
                                   Cleared(sc, prior), r)
              /\ run' = NoRun

\* skipLeft (skip)
ScanSkipLeftBlind ==
  /\ UNCHANGED <<ctdet, asd, amrel, srt>>
  /\ \E skip \in 1 .. MaxSkip :
       /\ sc.lcy - (skip - 1) >= sc.ymin - Margin
       /\ sc' = skipLeftBlind(sc, skip)
       /\ last' = [op |-> "skipLeftBlind", n |-> skip]
       /\ run' = NoRun
       /\ UNCHANGED out

\* skipRight (skip)
ScanSkipRightBlind ==
  /\ UNCHANGED <<ctdet, asd, amrel, srt>>
  /\ \E skip \in 1 .. MaxSkip :
       /\ sc.rcy + (skip - 1) < sc.ymax + Margin
       /\ sc' = skipRightBlind(sc, skip)
       /\ last' = [op |-> "skipRightBlind", n |-> skip]
       /\ run' = NoRun
       /\ UNCHANGED out

\* bindTo (a, b, c); a caller that turns the direction over turns c over too.
ScanBindTo ==
  /\ UNCHANGED <<ctdet, asd, amrel, srt>>
  /\ \E d \in BindDirections(sc), c \in BindShifts :
       LET cc == IF d[1] < 0 THEN 0 - c ELSE c
       IN  /\ sc' = bindTo(sc, d[1], d[2], cc)
           /\ last' = [op |-> "bindTo", a |-> d[1], b |-> d[2], c |-> cc]
           /\ run' = NoRun
           /\ UNCHANGED out

\* releaseClearance (), called on the scanner just built
ScanReleaseClearance ==
  /\ UNCHANGED <<ctdet, asd, amrel, srt>>
  /\ last = NoOperation
  /\ sc' = releaseClearance(sc)
  /\ last' = [op |-> "releaseClearance"]
  /\ run' = NoRun
  /\ UNCHANGED out

ScanNext ==
  \/ ScanFirst
  \/ ScanNextOnLeft
  \/ ScanNextOnRight
  \/ ScanSkipLeft
  \/ ScanSkipRight
  \/ ScanSkipLeftBlind
  \/ ScanSkipRightBlind
  \/ ScanBindTo
  \/ ScanReleaseClearance

ScanSpec == ScanInit /\ [][ScanNext]_vars

-----------------------------------------------------------------------------
(* Part 3: the seeds of AmrelTool::processAsd                              *)
(*   src/src/Amrel/amreltool.cpp, lines 546-671                            *)
(* The class AmrelMap is not part of the sources at hand: the map is       *)
(* modelled after its description, a raster of road numbers (0: free)     *)
(* with a counter of roads. A carriage track is an object of the heap,     *)
(* known by its number, with what processAsd reads of it: whether it has   *)
(* a central plateau and the pixels it covers.                             *)

\* seeds processed by one processAsd
MaxSeeds == 3
\* the detection map has the pixels 1 .. NbPixels
NbPixels == 3
\* pixels of a new road that may lie on roads of the map
MaxOverlap == 1

MapPixels == 1 .. NbPixels

\* the pixel sets a track may cover
TrackShapes == { a .. b : a \in MapPixels, b \in 0 .. NbPixels }

\* new AmrelMap (vm_width, vm_height, &cfg)
AM_new == [px |-> [p \in MapPixels |-> 0], nroads |-> 0]

\* Faulty variant: no pixel is seen as occupied.
AM_occupiedNever(m, p) == FALSE

\* AmrelMap::occupied (p)
AM_occupied(m, p) == m.px[p] # 0

\* Faulty variant: a refused road is numbered all the same.
AM_addCounting(m, pts) ==
  IF Cardinality({ p \in pts : m.px[p] # 0 }) > MaxOverlap
  THEN [map |-> [m EXCEPT !.nroads = @ + 1], ok |-> FALSE]
  ELSE [map |-> [px |-> [p \in MapPixels |->
                           IF p \in pts THEN m.nroads + 1 ELSE m.px[p]],
                 nroads |-> m.nroads + 1],
        ok |-> TRUE]

\* AmrelMap::add (pts): the map it leaves and the answer
AM_add(m, pts) ==
  IF Cardinality({ p \in pts : m.px[p] # 0 }) > MaxOverlap
  THEN [map |-> m, ok |-> FALSE]
  ELSE [map |-> [px |-> [p \in MapPixels |->
                           IF p \in pts THEN m.nroads + 1 ELSE m.px[p]],
                 nroads |-> m.nroads + 1],
        ok |-> TRUE]

\* new CarriageTrack (): the next object of the heap
NewObject(h, central, pts) ==
  [id |-> Cardinality(h.live \cup h.freed) + 1, central |-> central,
   pts |-> pts]

\* delete ct
Delete(h, ct) ==
  IF ct = NULL THEN h
  ELSE [live |-> h.live \ {ct}, freed |-> h.freed \cup {ct}]

\* CTrackDetector::clear (), lines 98-106, on the heap
ClearedHeap(h) == Delete(Delete(h, fct), ict)

\* Faulty variant: the detector keeps the track it handed over.
preserveNothing(f) == f

\* CTrackDetector::preserveDetection ()
preserveDetection(f) == NULL

\* AmrelTool::isConnected (pts)
isConnected(pts) == TRUE

\* What detect (p1, p2) leaves in fct and returns, the former tracks being
\* deleted: nothing for a stroke too short (line 142); a track that is not
\* returned (lines 218-231); a track returned without central plateau; a
\* track returned with its plateaux.
DetectOutcomes(h) ==
  { [fct |-> NULL, ret |-> NULL, fstatus |-> RESULT_FAIL_TOO_NARROW_INPUT] }
  \cup { [fct |-> NewObject(h, TRUE, pts), ret |-> NULL,
          fstatus |-> RESULT_FAIL_TOO_SPARSE_PLATEAUX] : pts \in {{}} }
  \cup { [fct |-> NewObject(h, FALSE, pts), ret |-> NewObject(h, FALSE, pts),
          fstatus |-> RESULT_FAIL_NO_CENTRAL_PLATEAU] : pts \in {{}} }
  \cup { [fct |-> NewObject(h, TRUE, pts), ret |-> NewObject(h, TRUE, pts),
          fstatus |-> RESULT_OK] : pts \in TrackShapes }

\* processAsd up to the loops on the seeds (lines 546-567), for a detector
\* set by addTrackDetector; the export is on or off.
AsdInit ==
  /\ cfg = AmrelCfg
  /\ csize = 1
  /\ pc = "idle"
  /\ result = "none"
  /\ ip = <<0, 0>>
  /\ fct = NULL
  /\ ict = NULL
  /\ fstatus = RESULT_NONE
  /\ istatus = RESULT_NONE
  /\ initial_unbounded = TRUE
  /\ pass = NoPass
  /\ au = NoAuto
  /\ tr = NoTrack
  /\ ds = NoScanners
  /\ terrain = NoTerrain
  /\ anomaly = FALSE
  /\ walks = <<>>
  /\ okWidths = {}
  /\ rsl = 0
  /\ sc = NoScanner
  /\ out = <<>>
  /\ last = NoOperation
  /\ run = NoRun
  /\ \E export \in BOOLEAN :
       tool = [road_sections |-> <<>>, num |-> 0, unused |-> 0,
               out_sucseeds |-> <<>>, isExportOn |-> export,
               left |-> MaxSeeds]
  /\ dmap = AM_new
  /\ heap = [live |-> {}, freed |-> {}]
  /\ seed = NoSeed
  /\ AmrelAtRest

\* the detector's fields processAsd does not reach
ctdetAtRest == <<cfg, csize, pc, result, ip, initial_unbounded, pass, au, tr,
                 ds, terrain, anomaly, walks, okWidths, rsl>>

\* A seed whose centre is occupied (lines 582-585, 627-630).
AsdUnused ==
  /\ UNCHANGED <<ctdetAtRest, scanning, amrel, srt>>
  /\ tool # NoTool
  /\ tool.left > 0
  /\ \E center \in MapPixels :
       /\ AM_occupied(dmap, center)
       /\ tool' = [tool EXCEPT !.unused = @ + 1, !.left = @ - 1]
       /\ seed' = [kind |-> "unused", center |-> center]
  /\ UNCHANGED <<fct, ict, fstatus, istatus, dmap, heap>>

\* A seed whose centre is free (lines 582-607, 627-658): detect (p1, p2),
\* then the track is put on the map and, when the export is on, handed over.
AsdDetect ==
  /\ UNCHANGED <<ctdetAtRest, scanning, amrel, srt>>
  /\ tool # NoTool
  /\ tool.left > 0
  /\ \E center \in MapPixels, d \in DetectOutcomes(ClearedHeap(heap)) :
       LET h == IF d.fct = NULL THEN ClearedHeap(heap)
                ELSE [ClearedHeap(heap) EXCEPT !.live = @ \cup {d.fct}]
           fit == d.ret # NULL /\ d.ret.central
           tried == fit /\ isConnected(d.ret.pts)
           a == IF tried THEN AM_add(dmap, d.ret.pts)
                ELSE [map |-> dmap, ok |-> FALSE]
           kept == a.ok /\ tool.isExportOn
       IN  /\ ~ AM_occupied(dmap, center)
           /\ heap' = h
           /\ fstatus' = d.fstatus
           /\ istatus' = RESULT_NONE
           /\ ict' = NULL
           /\ dmap' = a.map
           /\ fct' = IF kept THEN preserveDetection(d.fct) ELSE d.fct
           /\ tool' = [tool EXCEPT
                 !.out_sucseeds = IF a.ok THEN Append(@, center) ELSE @,
                 !.road_sections = IF kept THEN Append(@, d.ret) ELSE @,
                 !.num = IF fit THEN @ + 1 ELSE @,
                 !.left = @ - 1]
           /\ seed' = [kind |-> "detect", center |-> center, ret |-> d.ret,
                       tried |-> tried, ok |-> a.ok]

\* CTrackDetector::clear (), as the destructor of the detector calls it.
AsdClear ==
  /\ UNCHANGED <<ctdetAtRest, scanning, amrel, srt>>
  /\ tool # NoTool
  /\ tool.left = 0
  /\ seed.kind # "clear"
  /\ heap' = ClearedHeap(heap)
  /\ fct' = NULL
  /\ ict' = NULL
  /\ fstatus' = RESULT_NONE
  /\ istatus' = RESULT_NONE
  /\ seed' = [kind |-> "clear"]
  /\ UNCHANGED <<tool, dmap>>

AsdNext ==
  \/ AsdUnused
  \/ AsdDetect
  \/ AsdClear

AsdSpec == AsdInit /\ [][AsdNext]_vars

-----------------------------------------------------------------------------
(* AdaptiveScannerO2: properties                                           *)

\* the operations that deliver a scan
ScanOperations == {"first", "nextOnLeft", "nextOnRight", "skipLeft",
                   "skipRight"}

InArea(s, q) ==
  /\ s.xmin <= q[1] /\ q[1] < s.xmax
  /\ s.ymin <= q[2] /\ q[2] < s.ymax

\* C11: every pixel delivered by first, nextOnLeft, nextOnRight, skipLeft or
\* skipRight lies in the scan area (xmin <= x < xmax, ymin <= y < ymax),
\* whatever operations, bindTo included, came before.
C11_PixelsInArea ==
  last.op \in ScanOperations =>
    \A i \in 1 .. Len(last.pixels) : InArea(sc, last.pixels[i])

\* A scan with pixels, delivered after a bindTo to another direction from a
\* cursor that lies under the area.
C11_Witness ==
  /\ last.op \in {"nextOnLeft", "skipLeft"}
  /\ sc.dla # sc.templ_a
  /\ sc.lcy < sc.ymin
  /\ last.pixels # <<>>

\* the operations that put a cursor back on the control line
AnchoringOperations == ScanOperations \ {"first"}

C13_ScansDisjoint ==
  \A i, j \in 1 .. Len(run.scans) :
    i < j => run.scans[i] \cap run.scans[j] = {}

\* first () and three nextOnLeft () that each delivered pixels.
C13_Witness ==
  /\ run.side = "left"
  /\ Len(run.scans) >= 4
  /\ \A i \in 1 .. Len(run.scans) : run.scans[i] # {}

\* q is a position of the pattern line through p
OnLineOf(s, p, q) ==
  \E k \in 0 .. (s.xmax - s.xmin + Margin) :
    StepsOn(s, k, p) = q \/ StepsBack(s, k, p) = q

\* C14 (as stated): nextOnLeft (out) / nextOnRight (out) append the pixels
\* of the next scan to out and return zero exactly when that scan has no
\* pixel in the area, whatever out held before and whatever the clearance.
C14_AppendsAndCounts ==
  last.op \in {"nextOnLeft", "nextOnRight"} =>
    /\ out = last.prior \o last.pixels
    /\ (last.ret = 0) = (last.pixels = <<>>)

\* what a call of the scanner s keeps of the vector it is given
C14_Kept(s, prior) == IF s.clearance THEN <<>> ELSE prior

\* C14 (amended): nextOnLeft (out) / nextOnRight (out) move their cursor to
\* the pattern line one row down / up and leave the other cursor alone; they
\* empty out first when the clearance is on, then append the pixels of the
\* next scan, and return the size of out: zero exactly when that scan has
\* no pixel in the area and out was cleared or empty.
C14_NextScan ==
  [][ /\ last'.op = "nextOnLeft" =>
           /\ OnLineOf(sc, <<sc.lcx, sc.lcy - 1, sc.lst2>>, LeftCursor(sc'))
           /\ RightCursor(sc') = RightCursor(sc)
           /\ out' = C14_Kept(sc, last'.prior) \o last'.pixels
           /\ last'.ret = Len(out')
           /\ (last'.ret = 0) = (last'.pixels = <<>>
                                  /\ C14_Kept(sc, last'.prior) = <<>>)
      /\ last'.op = "nextOnRight" =>
           /\ OnLineOf(sc, <<sc.rcx, sc.rcy + 1, sc.rst2>>, RightCursor(sc'))
           /\ LeftCursor(sc') = LeftCursor(sc)
           /\ out' = C14_Kept(sc, last'.prior) \o last'.pixels
           /\ last'.ret = Len(out')
           /\ (last'.ret = 0) = (last'.pixels = <<>>
                                  /\ C14_Kept(sc, last'.prior) = <<>>)
    ]_vars

\* With the clearance released and a vector that is not empty, a scan
\* without pixels is answered by a size that is not zero.
C14_Witness ==
  /\ last.op \in {"nextOnLeft", "nextOnRight"}
  /\ ~ sc.clearance
  /\ last.prior # <<>>
  /\ last.pixels = <<>>
  /\ last.ret > 0

RECURSIVE NextOnLeftTimes(_, _)
\* n successive nextOnLeft, each on an emptied vector
NextOnLeftTimes(s, n) ==
  IF n <= 1 THEN nextOnLeft(s, <<>>)
  ELSE NextOnLeftTimes(nextOnLeft(s, <<>>).sc, n - 1)

RECURSIVE NextOnRightTimes(_, _)
\* n successive nextOnRight, each on an emptied vector
NextOnRightTimes(s, n) ==
  IF n <= 1 THEN nextOnRight(s, <<>>)
  ELSE NextOnRightTimes(nextOnRight(s, <<>>).sc, n - 1)

\* C15: skipLeft (out, n) / skipRight (out, n), n >= 1, deliver the pixels
\* and leave the scanner in the state of n successive nextOnLeft /
\* nextOnRight of which only the last scan is kept.
C15_SkipIsRepeatedNext ==
  [][ /\ last'.op = "skipLeft" =>
           /\ sc' = NextOnLeftTimes(sc, last'.n).sc
           /\ last'.pixels = NextOnLeftTimes(sc, last'.n).out
      /\ last'.op = "skipRight" =>
           /\ sc' = NextOnRightTimes(sc, last'.n).sc
           /\ last'.pixels = NextOnRightTimes(sc, last'.n).out
    ]_vars

\* C15 (amended): skipLeft (out, n) / skipRight (out, n), n >= 1, deliver
\* the pixels of the last of n successive nextOnLeft / nextOnRight and leave
\* the scanner as they do up to the place of the cursor on its pattern
\* line; the cursor is at the same place too when it lies in the area
\* before and after the call.
C15_SkipYieldsSameScan ==
  [][ /\ last'.op = "skipLeft" =>
           LET r == NextOnLeftTimes(sc, last'.n)
           IN  /\ last'.pixels = r.out
               /\ OnLineOf(sc, LeftCursor(sc'), LeftCursor(r.sc))
               /\ WithLeft(sc', LeftCursor(r.sc)) = r.sc
               /\ InArea(sc, LeftCursor(sc)) /\ InArea(sc, LeftCursor(sc'))
                    => sc' = r.sc
      /\ last'.op = "skipRight" =>
           LET r == NextOnRightTimes(sc, last'.n)
           IN  /\ last'.pixels = r.out
               /\ OnLineOf(sc, RightCursor(sc'), RightCursor(r.sc))
               /\ WithRight(sc', RightCursor(r.sc)) = r.sc
               /\ InArea(sc, RightCursor(sc)) /\ InArea(sc, RightCursor(sc'))
                    => sc' = r.sc
    ]_vars

\* A skip of two lines that delivered pixels from a cursor out of the area.
C15_Witness ==
  /\ last.op = "skipRight"
  /\ last.n = 2
  /\ last.pixels # <<>>
  /\ ~ InArea(sc, RightCursor(sc))

\* the template thickness rescaled by the ratio of the l1 norms of (a, b)
\* and of the template direction
QuotientL1(s, a, b) ==
  (s.templ_nu * (Abs(a) + Abs(b))) \div (Abs(s.templ_a) + Abs(s.templ_b))

\* the same by the ratio of the l-infinity norms
QuotientLinf(s, a, b) ==
  (s.templ_nu * SetMax({Abs(a), Abs(b)}))
    \div SetMax({Abs(s.templ_a), Abs(s.templ_b)})

\* C16: on bindTo (a, b, c) the new thickness of the strip is the thickness
\* of the template rescaled by the ratio of the l1 norms or by the ratio of
\* the l-infinity norms of the new and template directions, whichever gives
\* the smaller integer quotient (the bounds are set at c + nu / 2 and
\* c - nu / 2).
C16_SmallerQuotient ==
  last.op = "bindTo" =>
    sc.dlc1 - sc.dlc2
      = 2 * (SetMin({QuotientL1(sc, last.a, last.b),
                     QuotientLinf(sc, last.a, last.b)}) \div 2)

\* C17: bindTo (a, b, c) changes the direction and the two bounds only: the
\* direction becomes (a, b), the bounds lie symmetric about c (c1 + c2 = 2 c;
\* a, b and c are negated when a < 0); the cursors, the pattern, the area,
\* the template of the thickness and the caller's vector stay as they
\* were, and the same call once more changes nothing.
C17_BindToFrame ==
  [][ last'.op = "bindTo" =>
        LET a == last'.a
            b == last'.b
            c == last'.c
        IN  /\ sc' = [sc EXCEPT !.dla = sc'.dla, !.dlb = sc'.dlb,
                                !.dlc1 = sc'.dlc1, !.dlc2 = sc'.dlc2]
            /\ out' = out
            /\ sc'.dla = (IF a < 0 THEN 0 - a ELSE a)
            /\ sc'.dlb = (IF a < 0 THEN 0 - b ELSE b)
            /\ sc'.dlc1 + sc'.dlc2 = 2 * (IF a < 0 THEN 0 - c ELSE c)
            /\ sc'.dlc1 >= sc'.dlc2
            /\ last = last' => sc' = sc
    ]_vars

\* A scanner bound to a direction given by its opposite, to other bounds
\* than the ones it was built with, after both cursors left the central scan.
C17_Witness ==
  /\ last.op = "bindTo"
  /\ last.a < 0
  /\ sc.dla = 0 - last.a
  /\ sc.dlc1 - sc.dlc2 # sc.templ_nu
  /\ sc.lcy < sc.rcy
  /\ sc.dlc1 + sc.dlc2 = 0 - 2 * last.c

-----------------------------------------------------------------------------
(* AmrelTool::processAsd: properties                                       *)

\* C18: AmrelMap.add either accepts the road, stamps a new road number
\* greater than every number given before and increments the counter, or
\* refuses it and leaves the pixels of the map and the counter as they were;
\* a pixel carries one road number at most, a number the counter gave.
C18_AddAcceptsOrRollsBack ==
  [][ seed'.kind = "detect" =>
        /\ seed'.tried /\ seed'.ok =>
             /\ dmap'.nroads = dmap.nroads + 1
             /\ \A p \in MapPixels :
                  /\ dmap.px[p] < dmap'.nroads
                  /\ dmap'.px[p] = IF p \in seed'.ret.pts THEN dmap'.nroads
                                   ELSE dmap.px[p]
        /\ ~ (seed'.tried /\ seed'.ok) => dmap' = dmap
        /\ \A p \in MapPixels : dmap'.px[p] \in 0 .. dmap'.nroads
    ]_vars

\* A road refused by a map that holds two roads.
C18_Witness ==
  /\ seed.kind = "detect"
  /\ seed.tried
  /\ ~ seed.ok
  /\ dmap.nroads = 2
  /\ \E p \in MapPixels : dmap.px[p] = 2

\* C19: a seed whose centre is occupied on the detection map is not given
\* to the detector: it adds one to the unused seeds and changes neither the
\* map, the successful seeds nor road_sections; a seed is recorded as
\* successful only when the map accepted its track.
C19_OccupiedSeedUnused ==
  [][ /\ seed'.kind = "unused" =>
           /\ dmap.px[seed'.center] # 0
           /\ tool'.unused = tool.unused + 1
           /\ dmap' = dmap
           /\ tool'.out_sucseeds = tool.out_sucseeds
           /\ tool'.road_sections = tool.road_sections
           /\ tool'.num = tool.num
           /\ heap' = heap /\ fct' = fct /\ ict' = ict /\ fstatus' = fstatus
      /\ seed'.kind = "detect" =>
           /\ dmap.px[seed'.center] = 0
           /\ tool'.unused = tool.unused
      /\ tool'.out_sucseeds # tool.out_sucseeds =>
           /\ seed'.kind = "detect"
           /\ tool'.out_sucseeds = Append(tool.out_sucseeds, seed'.center)
           /\ seed'.ret # NULL
           /\ dmap'.nroads = dmap.nroads + 1
           /\ \A p \in seed'.ret.pts : dmap'.px[p] = dmap'.nroads
    ]_vars

\* A first seed was successful, a second one is unused.
C19_Witness ==
  /\ seed.kind = "unused"
  /\ tool.unused = 1
  /\ Len(tool.out_sucseeds) = 1
  /\ dmap.px[seed.center] = 1

\* the tracks of road_sections
Sections(t) == { t.road_sections[i] : i \in 1 .. Len(t.road_sections) }

\* C20: a track handed over to road_sections is never deleted by a later
\* detect () or clear () of the detector; a track that was not handed over
\* is deleted by the next detect (); no track is owned by the detector and
\* by the list at once.
C20_HandedOverTracksLive ==
  [][ /\ Sections(tool') \cap heap'.freed = {}
      /\ Sections(tool') \subseteq heap'.live
      /\ fct' \notin Sections(tool')
      /\ ict' \notin Sections(tool')
      /\ seed'.kind \in {"detect", "clear"} /\ fct # NULL
           => fct \in heap'.freed
    ]_vars

\* The detector deleted a track after it handed another one over, and was
\* cleared in the end.
C20_Witness ==
  /\ seed.kind = "clear"
  /\ \E t \in Sections(tool), u \in heap.freed : t.id < u.id /\ u.central
  /\ \E t \in Sections(tool) : \A u \in heap.freed : u.id < t.id

-----------------------------------------------------------------------------
\* Part 4. TerrainMap's pads and the padded run of AmrelTool::processSawing:
\* the digital terrain model is a grid of ts_cot x ts_rot tiles, visited
\* through a window (pad) of pad_w x pad_h tiles.  The pad buffer is modelled
\* tile by tile: every copy, load and clear of nextPad moves whole tiles.

\* largest tile grid
MaxCols == 6

MaxRows == 6

DEFAULT_PAD_SIZE == 3

\* values of cfg.padSize (): 0 runs the whole map at once
PadSizes == {0, 1, 2, 3, 5}

\* C++ remainder (sign of the dividend)
CRem(x, y) == x - y * CDiv(x, y)

\* content of one tile of the pad buffer: the shading of tile k (k >= 0),
\* zeros, or bytes nextPad never wrote
ZeroTile == 0 - 1

StaleTile == 0 - 2

PadCells(p) == (0 .. p.pad_w - 1) \X (0 .. p.pad_h - 1)

\* TerrainMap (): the defaults; dtm_map is allocated without being filled
TerrainMap ==
  [pad_size |-> DEFAULT_PAD_SIZE, pad_w |-> DEFAULT_PAD_SIZE,
   pad_h |-> DEFAULT_PAD_SIZE, pad_ref |-> 0 - 1, ts_cot |-> 1, ts_rot |-> 1,
   files |-> {}, buf |-> <<>>]

setPadSize(p, val) ==
  IF val >= 0 /\ val % 2 = 1
  THEN [p EXCEPT !.pad_size = val, !.pad_w = val, !.pad_h = val]
  ELSE p

\* assembleMap (cols, rows, xmin, ymin, true): the grid and the tiles that
\* have a file
assembleMap(p, cols, rows, files) ==
  [p EXCEPT !.ts_cot = cols, !.ts_rot = rows, !.files = files]

adjustPadSize(p) ==
  [p EXCEPT !.pad_w = IF p.pad_w > p.ts_cot THEN p.ts_cot ELSE p.pad_w,
            !.pad_h = IF p.pad_h > p.ts_rot THEN p.ts_rot ELSE p.pad_h]

\* new unsigned char[pad_w * dtm_w * pad_h * dtm_h]
NewBuffer(p) == [p EXCEPT !.buf = [c \in PadCells(p) |-> StaleTile]]

\* what loadMap (k, submap) writes in a tile of the buffer
loadMap(p, k) ==
  IF k \notin 0 .. p.ts_cot * p.ts_rot - 1 THEN StaleTile
  ELSE IF k \in p.files THEN k ELSE ZeroTile

\* what a copy loop reads at tile (i, j) of the buffer
Slot(p, i, j) == IF <<i, j>> \in PadCells(p) THEN p.buf[<<i, j>>] ELSE StaleTile

\* the tile loaded at place (i, j) of a pad of reference ref
TileAt(p, ref, i, j) ==
  (CDiv(ref, p.ts_cot) + j) * p.ts_cot + CRem(ref, p.ts_cot) + i

\* pad_ew and pad_eh: the part of the pad inside the grid
PadEw(p, ref) ==
  IF CRem(ref, p.ts_cot) + p.pad_w > p.ts_cot
  THEN p.pad_w - (CRem(ref, p.ts_cot) + p.pad_w - p.ts_cot)
  ELSE p.pad_w

PadEh(p, ref) ==
  IF CDiv(ref, p.ts_cot) + p.pad_h > p.ts_rot
  THEN p.pad_h - (CDiv(ref, p.ts_cot) + p.pad_h - p.ts_rot)
  ELSE p.pad_h

FirstPad(p) ==
  [p EXCEPT !.pad_ref = 0,
            !.buf = [c \in PadCells(p) |-> loadMap(p, c[2] * p.ts_cot + c[1])]]

GettingOut(p) == [p EXCEPT !.pad_ref = 0 - 1]

\* climbing up on left side to next row
ClimbingLeft(p) ==
  LET ref == p.pad_ref + p.ts_cot * (p.pad_h - 2)
      eh == PadEh(p, ref)
  IN  [p EXCEPT !.pad_ref = ref,
                !.buf = [c \in PadCells(p) |->
                   IF c[2] >= eh THEN ZeroTile
                   ELSE IF c[2] >= 2 THEN loadMap(p, TileAt(p, ref, c[1], c[2]))
                   ELSE Slot(p, c[1], p.pad_h - 2 + c[2])]]

\* going left to next column
GoingLeft(p) ==
  LET ref == p.pad_ref - (p.pad_w - 2)
      eh == PadEh(p, ref)
  IN  [p EXCEPT !.pad_ref = ref,
                !.buf = [c \in PadCells(p) |->
                   IF c[2] >= eh THEN p.buf[c]
                   ELSE IF c[1] < p.pad_w - 2
                        THEN loadMap(p, TileAt(p, ref, c[1], c[2]))
                   ELSE Slot(p, c[1] - (p.pad_w - 2), c[2])]]

\* climbing up on right side to next row
ClimbingRight(p) ==
  LET ref == p.pad_ref + p.ts_cot * (p.pad_h - 2)
      ew == PadEw(p, ref)
      eh == PadEh(p, ref)
  IN  [p EXCEPT !.pad_ref = ref,
                !.buf = [c \in PadCells(p) |->
                   IF c[1] >= ew THEN p.buf[c]
                   ELSE IF c[2] >= eh THEN ZeroTile
                   ELSE IF c[2] >= 2 THEN loadMap(p, TileAt(p, ref, c[1], c[2]))
                   ELSE Slot(p, c[1], p.pad_h - 2 + c[2])]]

\* faulty variant: the columns of the pad beyond the grid keep their tiles
GoingRightNoClear(p) ==
  LET ref == p.pad_ref + p.pad_w - 2
      eh == PadEh(p, ref)
  IN  [p EXCEPT !.pad_ref = ref,
                !.buf = [c \in PadCells(p) |->
                   IF c[2] >= eh THEN p.buf[c]
                   ELSE IF c[1] >= 2 THEN loadMap(p, TileAt(p, ref, c[1], c[2]))
                   ELSE Slot(p, p.pad_w - 2 + c[1], c[2])]]

\* going right to next column
GoingRight(p) ==
  LET ref == p.pad_ref + p.pad_w - 2
      ew == PadEw(p, ref)
      eh == PadEh(p, ref)
  IN  [p EXCEPT !.pad_ref = ref,
                !.buf = [c \in PadCells(p) |->
                   IF c[2] >= eh THEN p.buf[c]
                   ELSE IF c[1] >= ew THEN ZeroTile
                   ELSE IF c[1] >= 2 THEN loadMap(p, TileAt(p, ref, c[1], c[2]))
                   ELSE Slot(p, p.pad_w - 2 + c[1], c[2])]]

\* the band test of nextPad; its divisor is pad_h - 2
OnOddBand(p) == CRem(CDiv(CDiv(p.pad_ref, p.ts_cot), p.pad_h - 2), 2) = 1

\* the branch nextPad takes from a pad in place
PadMove(p, odd) ==
  IF odd
  THEN IF CRem(p.pad_ref, p.ts_cot) = 0
       THEN IF p.pad_ref + p.ts_cot * p.pad_h >= p.ts_cot * p.ts_rot
            THEN "out" ELSE "climbLeft"
       ELSE "left"
  ELSE IF CRem(p.pad_ref, p.ts_cot) + p.pad_w >= p.ts_cot
       THEN IF p.pad_ref + p.ts_cot * p.pad_h >= p.ts_cot * p.ts_rot
            THEN "out" ELSE "climbRight"
       ELSE "right"

Moved(p, move) ==
  CASE move = "out" -> GettingOut(p)
    [] move = "climbLeft" -> ClimbingLeft(p)
    [] move = "left" -> GoingLeft(p)
    [] move = "climbRight" -> ClimbingRight(p)
    [] move = "right" -> GoingRight(p)

\* a copy loop of the move runs over the ends of the buffer: the two tile
\* rows or columns it copies do not fit in the pad
Overruns(p, move) ==
  \/ move \in {"climbLeft", "climbRight"} /\ p.pad_h < 2
  \/ move \in {"left", "right"} /\ p.pad_w < 2

\* the move is carried out; when it overruns the buffer the process may
\* also be stopped
PadOutcomes(p, odd) ==
  {[pad |-> Moved(p, PadMove(p, odd)), trap |-> FALSE]} \cup
  (IF Overruns(p, PadMove(p, odd)) THEN {[pad |-> p, trap |-> TRUE]} ELSE {})

\* nextPad (map): the outcomes of one call.  With pad_h = 2 the band test
\* divides by zero: the process is stopped, or the quotient is read as 0.
nextPad(p) ==
  IF p.pad_ref = 0 - 1 THEN {[pad |-> FirstPad(p), trap |-> FALSE]}
  ELSE IF p.pad_h - 2 = 0
       THEN {[pad |-> p, trap |-> TRUE]} \cup PadOutcomes(p, FALSE)
  ELSE PadOutcomes(p, OnOddBand(p))

\* processSawing ---------------------------------------------------------

\* most blurred segments found in one gradient map
MaxSegments == 2

\* the tiles of a cols x rows grid, and the sets of tiles that have a file
GridTiles(cols, rows) == 0 .. cols * rows - 1

FileSets(cols, rows) ==
  {GridTiles(cols, rows)} \cup
  {GridTiles(cols, rows) \ {t} : t \in GridTiles(cols, rows)}

\* processSobel: a gradient map of the pad (or of the whole map: pad -1)
processSobel(s, k) == [s EXCEPT !.gmap = [of |-> k]]

\* processFbsd: n blurred segments of the gradient map join dss
processFbsd(s, n) ==
  [s EXCEPT !.dss = s.dss \o [x \in 1 .. n |-> s.gmap.of]]

clearSobel(s) == [s EXCEPT !.gmap = NULL]

\* processSeeds (kref): seeds come out of every segment of dss
processSeeds(s, kref) ==
  [s EXCEPT !.seeds = {[pad |-> kref, from |-> s.dss[x]] : x \in DOMAIN s.dss}]

\* faulty variant: the segments stay in dss
clearFbsdKeeping(s) == s

clearFbsd(s) == [s EXCEPT !.dss = <<>>]

PadInit ==
  /\ cfg = AmrelCfg
  /\ csize = 1
  /\ pc = "idle"
  /\ result = "none"
  /\ ip = <<0, 0>>
  /\ fct = NULL
  /\ ict = NULL
  /\ fstatus = RESULT_NONE
  /\ istatus = RESULT_NONE
  /\ initial_unbounded = TRUE
  /\ pass = NoPass
  /\ au = NoAuto
  /\ tr = NoTrack
  /\ ds = NoScanners
  /\ terrain = NoTerrain
  /\ anomaly = FALSE
  /\ walks = <<>>
  /\ okWidths = {}
  /\ rsl = 0
  /\ sc = NoScanner
  /\ out = <<>>
  /\ last = NoOperation
  /\ run = NoRun
  /\ tool = NoTool
  /\ dmap = NoTool
  /\ heap = NoTool
  /\ seed = NoSeed
  /\ pad = NoPad
  /\ saw = [pc |-> "begin", k |-> 0 - 1, ks |-> <<>>, gmap |-> NULL,
            dss |-> <<>>, seeds |-> {}, padSize |-> 0]
  /\ job = NoJob
  /\ store = NoStore
  /\ plt = NoPlateaux
  /\ srt = NoSort

\* lines 674-766: the run on the whole map when padSize is 0; otherwise the
\* terrain map is built, the tiles arranged and the buffer allocated
SawBegin ==
  /\ saw.pc = "begin"
  /\ \E ps \in PadSizes :
       IF ps = 0
       THEN /\ \E n \in 0 .. MaxSegments :
                 saw' = [clearFbsd(processSeeds(clearSobel(
                           processFbsd(processSobel(saw, 0 - 1), n)), 0 - 1))
                         EXCEPT !.pc = "done"]
            /\ pad' = pad
       ELSE /\ \E cols \in 1 .. MaxCols, rows \in 1 .. MaxRows :
                 \E files \in FileSets(cols, rows) :
                    pad' = NewBuffer(adjustPadSize(assembleMap(
                             setPadSize(TerrainMap, ps), cols, rows, files)))
            /\ saw' = [saw EXCEPT !.pc = "next", !.padSize = ps]
  /\ UNCHANGED <<ctdet, scanning, asd, job, store, plt, srt>>

\* lines 767 and 785: k = dtm_in->nextPad (dtm_map); the loop ends on -1
SawNextPad ==
  /\ saw.pc = "next"
  /\ \E o \in nextPad(pad) :
       /\ pad' = o.pad
       /\ saw' = IF o.trap THEN [saw EXCEPT !.pc = "stopped"]
                 ELSE [saw EXCEPT !.k = o.pad.pad_ref,
                                  !.ks = Append(saw.ks, o.pad.pad_ref),
                                  !.pc = IF o.pad.pad_ref = 0 - 1
                                         THEN "done" ELSE "pad"]
  /\ UNCHANGED <<ctdet, scanning, asd, job, store, plt, srt>>

\* lines 768-784: the body of the loop on one pad
SawPad ==
  /\ saw.pc = "pad"
  /\ \E n \in 0 .. MaxSegments :
       saw' = [clearFbsd(processSeeds(clearSobel(
                 processFbsd(processSobel(saw, saw.k), n)), saw.k))
               EXCEPT !.pc = "next"]
  /\ pad' = pad
  /\ UNCHANGED <<ctdet, scanning, asd, job, store, plt, srt>>

PadNext == SawBegin \/ SawNextPad \/ SawPad

PadSpec == PadInit /\ [][PadNext]_vars

\* ---- the pads of the terrain map: claims -----------------------------

PadCol(ref) == CRem(ref, pad.ts_cot)

PadRow(ref) == CDiv(ref, pad.ts_cot)

\* the tiles of the grid inside the window of the pad of reference ref
Window(ref) ==
  {t \in GridTiles(pad.ts_cot, pad.ts_rot) :
     /\ t % pad.ts_cot \in PadCol(ref) .. PadCol(ref) + pad.pad_w - 1
     /\ t \div pad.ts_cot \in PadRow(ref) .. PadRow(ref) + pad.pad_h - 1}

\* the pads delivered so far
Pads == {x \in DOMAIN saw.ks : saw.ks[x] # 0 - 1}

\* from pad a to pad b: one step along a row, to the right on a band of
\* even rank and to the left on a band of odd rank, or one step up at the
\* end of a row; the two windows share two tile columns or two tile rows
SweepStep(a, b, rank) ==
  \/ /\ PadRow(b) = PadRow(a)
     /\ IF rank % 2 = 0 THEN PadCol(b) = PadCol(a) + pad.pad_w - 2
                        ELSE PadCol(b) = PadCol(a) - (pad.pad_w - 2)
     /\ PadCol(b) # PadCol(a)
  \/ /\ PadCol(b) = PadCol(a)
     /\ PadRow(b) = PadRow(a) + pad.pad_h - 2
     /\ PadRow(b) # PadRow(a)

\* number of steps up among the first n pads
RECURSIVE Climbs(_)
Climbs(n) ==
  IF n <= 1 THEN 0
  ELSE Climbs(n - 1) +
       (IF PadRow(saw.ks[n]) # PadRow(saw.ks[n - 1]) THEN 1 ELSE 0)

\* C21: in a padded run, the calls of nextPad deliver reference tiles and
\* end with -1 (the run is never stopped before), the pads follow one
\* another in boustrophedon order with an overlap of two tile columns or
\* rows, and when -1 comes the windows have covered every tile of the grid.
C21_PadsSweepGrid ==
  pad # NoPad =>
    /\ saw.pc # "stopped"
    /\ \A x \in Pads : saw.ks[x] \in GridTiles(pad.ts_cot, pad.ts_rot)
    /\ Pads # {} => saw.ks[1] = 0
    /\ \A x \in Pads : x > 1 => SweepStep(saw.ks[x - 1], saw.ks[x], Climbs(x - 1))
    /\ saw.pc = "done" =>
         UNION {Window(saw.ks[x]) : x \in Pads} = GridTiles(pad.ts_cot, pad.ts_rot)

\* the same on the grids and pad sizes where no move of nextPad is out of
\* order: pads of 3 x 3 tiles at least
PadsSweepLargeGrid == (pad # NoPad /\ pad.pad_w >= 3 /\ pad.pad_h >= 3) => C21_PadsSweepGrid

\* what a full reload of the pad of reference k would put at place (i, j)
Reloaded(k, i, j) ==
  LET x == (k % pad.ts_cot) + i
      y == (k \div pad.ts_cot) + j
  IN  IF x < pad.ts_cot /\ y < pad.ts_rot /\ y * pad.ts_cot + x \in pad.files
      THEN y * pad.ts_cot + x
      ELSE 0 - 1

\* C22: after every call of nextPad that returns a reference tile k, the
\* place (i, j) of the pad buffer holds the shading of the tile
\* (k mod cols + i, k div cols + j) when that tile is inside the grid and
\* has a file, and zeros otherwise.
C22_PadHoldsTiles ==
  (pad # NoPad /\ saw.pc = "pad") =>
    \A c \in PadCells(pad) : pad.buf[c] = Reloaded(saw.k, c[1], c[2])

\* a pad reached by a move (tiles shifted in the buffer) that overhangs the
\* grid and has a tile without file in its window
C22_Witness ==
  /\ pad # NoPad
  /\ saw.pc = "pad"
  /\ Len(saw.ks) >= 3
  /\ PadCol(saw.k) + pad.pad_w > pad.ts_cot
  /\ PadRow(saw.k) + pad.pad_h > pad.ts_rot
  /\ Window(saw.k) \ pad.files # {}
  /\ C22_PadHoldsTiles

\* C24: in the padded run, the gradient map and the blurred segments of a
\* pad are released before the next pad is loaded: at every call of nextPad
\* after the first, gmap is null and dss is empty; and the seeds made on
\* pad k come from segments detected on pad k only.
C24_PadsReleased ==
  /\ (pad # NoPad /\ saw.pc = "next" /\ saw.ks # <<>>) =>
        (saw.gmap = NULL /\ saw.dss = <<>>)
  /\ \A s \in saw.seeds : s.from = s.pad

\* the third call of nextPad is due, the pad before gave seeds
C24_Witness ==
  /\ pad # NoPad
  /\ saw.pc = "next"
  /\ Len(saw.ks) = 2
  /\ saw.seeds # {}
  /\ C24_PadsReleased
-----------------------------------------------------------------------------
\* Part 5. AmrelTool::run: the steps of the tool, their prerequisite loads,
\* their processing and the files they write.

Steps == {"seed check", "hill map", "STEP_ALL", "STEP_SAWING", "STEP_SHADE",
          "STEP_RORPO", "STEP_SOBEL", "STEP_FBSD", "STEP_SEEDS", "STEP_ASD"}

\* the settings run () reads: --map, --export, --export-bounds, a tile
\* buffer (bufferSize # 0), rorpo skipped
RunOptions ==
  [outMap : BOOLEAN, export : BOOLEAN, bounds : BOOLEAN, buffer : BOOLEAN,
   rorpoSkipped : BOOLEAN]

\* the loads a step returns on when they fail
StepLoads(step, o) ==
  CASE step \in {"seed check", "hill map", "STEP_SHADE"} -> <<"tile set">>
    [] step = "STEP_RORPO" -> <<"shading map">>
    [] step = "STEP_SOBEL" ->
         IF o.rorpoSkipped THEN <<"shading map">> ELSE <<"rorpo map">>
    [] step = "STEP_FBSD" -> <<"sobel map">>
    [] step = "STEP_SEEDS" -> <<"tile set", "fbsd segments">>
    [] step = "STEP_ASD" -> <<"seeds", "tile set">>
    [] OTHER -> <<>>

\* the file a step saves, and the image --map adds when the file is saved
StepFile(step) ==
  CASE step = "STEP_SAWING" -> "seeds"
    [] step = "STEP_SHADE" -> "shading map"
    [] step = "STEP_RORPO" -> "rorpo map"
    [] step = "STEP_SOBEL" -> "sobel map"
    [] step = "STEP_FBSD" -> "fbsd segments"
    [] step = "STEP_SEEDS" -> "seeds"

StepImage(step) ==
  CASE step = "STEP_SAWING" -> {}
    [] step = "STEP_SHADE" -> {"shading image"}
    [] step = "STEP_RORPO" -> {"rorpo image"}
    [] step = "STEP_SOBEL" -> {"sobel image"}
    [] step = "STEP_FBSD" -> {"fbsd image"}
    [] step = "STEP_SEEDS" -> {"seeds image"}

\* AmrelTool (): detection_map = NULL, no road
NewJob(step, o) ==
  [pc |-> "load", step |-> step, opts |-> o, loaded |-> 0,
   detection_map |-> "NULL", roads |-> 0, asd |-> "not run", failed |-> FALSE,
   outputs |-> {}, mapRead |-> FALSE]

\* processAsd (), lines 546-566 and 663-670: without tile buffer the points
\* are loaded first and the call returns false when they cannot be; else
\* a new detection map is made, and the successful seeds are saved
ProcessAsdOutcomes(j) ==
  {[j EXCEPT !.asd = "ok", !.detection_map = "AmrelMap", !.roads = n,
             !.outputs = j.outputs \cup {"successful seeds"}] : n \in 0 .. 1}
  \cup
  (IF j.opts.buffer THEN {}
   ELSE {[j EXCEPT !.asd = "failed", !.roads = 0, !.failed = TRUE]})

\* exportRoads / exportRoadCenters: nothing without road
Exported(j) ==
  IF j.opts.export /\ j.roads > 0
  THEN IF j.opts.bounds THEN {"road bounds"} ELSE {"road centers"}
  ELSE {}

RunInit ==
  /\ cfg = AmrelCfg
  /\ csize = 1
  /\ pc = "idle"
  /\ result = "none"
  /\ ip = <<0, 0>>
  /\ fct = NULL
  /\ ict = NULL
  /\ fstatus = RESULT_NONE
  /\ istatus = RESULT_NONE
  /\ initial_unbounded = TRUE
  /\ pass = NoPass
  /\ au = NoAuto
  /\ tr = NoTrack
  /\ ds = NoScanners
  /\ terrain = NoTerrain
  /\ anomaly = FALSE
  /\ walks = <<>>
  /\ okWidths = {}
  /\ rsl = 0
  /\ sc = NoScanner
  /\ out = <<>>
  /\ last = NoOperation
  /\ run = NoRun
  /\ tool = NoTool
  /\ dmap = NoTool
  /\ heap = NoTool
  /\ seed = NoSeed
  /\ pad = NoPad
  /\ saw = NoSaw
  /\ job \in {NewJob(step, o) : step \in Steps, o \in RunOptions}
  /\ store = NoStore
  /\ plt = NoPlateaux
  /\ srt = NoSort

RunFrame == <<ctdet, scanning, asd, pad, saw, store, plt, srt>>

\* one prerequisite load of the step: run () returns when it fails
RunLoad ==
  /\ job.pc = "load"
  /\ job.loaded < Len(StepLoads(job.step, job.opts))
  /\ \E ok \in BOOLEAN :
       job' = IF ok THEN [job EXCEPT !.loaded = job.loaded + 1]
              ELSE [job EXCEPT !.pc = "returned", !.failed = TRUE]
  /\ UNCHANGED RunFrame

\* the processing of the step, once its loads are done
RunProcess ==
  /\ job.pc = "load"
  /\ job.loaded = Len(StepLoads(job.step, job.opts))
  /\ CASE job.step = "seed check" ->
            job' = [job EXCEPT !.pc = "returned"]
       [] job.step = "hill map" ->
            job' = [job EXCEPT !.pc = "returned", !.outputs = {"hill image"}]
       [] job.step = "STEP_ALL" ->
            \/ job' = [job EXCEPT !.pc = "returned", !.failed = TRUE]
            \/ \E j \in ProcessAsdOutcomes(job) :
                 job' = [j EXCEPT !.pc = IF j.asd = "ok" THEN "roads"
                                         ELSE "returned"]
       [] job.step = "STEP_SAWING" ->
            \/ job' = [job EXCEPT !.pc = "returned", !.failed = TRUE]
            \/ job' = [job EXCEPT !.pc = "save"]
       [] job.step = "STEP_ASD" ->
            \E j \in ProcessAsdOutcomes(job) : job' = [j EXCEPT !.pc = "roads"]
       [] OTHER -> job' = [job EXCEPT !.pc = "save"]
  /\ UNCHANGED RunFrame

\* the file of the step is saved, and its image with --map, unless the file
\* cannot be opened
RunSave ==
  /\ job.pc = "save"
  /\ \E ok \in BOOLEAN :
       job' = IF ok
              THEN [job EXCEPT !.pc = "returned",
                      !.outputs = job.outputs \cup {StepFile(job.step)} \cup
                        (IF job.opts.outMap THEN StepImage(job.step) ELSE {})]
              ELSE [job EXCEPT !.pc = "returned", !.failed = TRUE]
  /\ UNCHANGED RunFrame

\* saveAsdImage and the export.  saveAsdImage calls detection_map->getMap ():
\* through a null detection_map the process is stopped, or the call goes on
\* with what it finds there.
RunRoads ==
  /\ job.pc = "roads"
  /\ \/ job' = [job EXCEPT !.pc = "returned", !.mapRead = TRUE,
                   !.outputs = job.outputs \cup {"road image"} \cup Exported(job)]
     \/ /\ job.detection_map = "NULL"
        /\ job' = [job EXCEPT !.pc = "stopped", !.mapRead = TRUE]
  /\ UNCHANGED RunFrame

RunNext == RunLoad \/ RunProcess \/ RunSave \/ RunRoads

RunSpec == RunInit /\ [][RunNext]_vars

\* C23: in every run mode the road image and the shapefiles are produced
\* only after processAsd has returned success; and when a prerequisite load
\* or the processing of the step has failed, the step writes no output and
\* does not read the detection map.
C23_OutputsOnlyOnSuccess ==
  job # NoJob =>
    /\ job.outputs \cap {"road image", "road bounds", "road centers"} # {}
         => job.asd = "ok"
    /\ job.failed => (job.outputs = {} /\ ~job.mapRead)

-----------------------------------------------------------------------------
\* Part 6. The seeds of the tool: processSeeds puts cross-strokes in the
\* bucket of a tile (out_seeds), saveSeeds writes the buckets in the seeds
\* file, loadSeeds reads them back, processAsd walks the tiles.

\* width and height of a tile, in cells
TileSize == 2

\* most strokes processSeeds emits in one run
MaxStrokes == 2

\* tile grids: <<columns, rows>>
SeedGrids == {<<1, 1>>, <<2, 2>>, <<3, 2>>, <<2, 3>>}

\* end points of the strokes emitted on a raster of w x h cells: inside
\* and just outside
SeedPoints(w, h) ==
  {<<0 - 1, 0>>, <<0, 0>>, <<3, 1>>, <<1, h - 1>>, <<w - 1, h - 1>>, <<w, 1>>}

\* lines 513-516 of processSeeds: both ends of the stroke are in the raster
InRaster(s, p) ==
  /\ p[1] >= 0 /\ p[1] < s.cot * s.tw
  /\ p[2] >= 0 /\ p[2] < s.rot * s.th

Clamped(v, n) == IF v < 0 THEN 0 ELSE IF v >= n THEN n - 1 ELSE v

\* the tile of the middle of a stroke, clamped to the grid (processSeeds
\* lines 520-525, loadSeeds lines 1109-1114)
SeedTile(p1, p2, tw, th, tsw, tsh) ==
  Clamped(CDiv(CDiv(p1[2] + p2[2], 2), th), tsh) * tsw
    + Clamped(CDiv(CDiv(p1[1] + p2[1], 2), tw), tsw)

\* faulty variant: the tile of the first end of the stroke
SeedTileOfFirstEnd(p1, p2, tw, th, tsw, tsh) ==
  Clamped(CDiv(p1[2], th), tsh) * tsw + Clamped(CDiv(p1[1], tw), tsw)

\* the tile of a stroke read from the seeds file
LoadedTile(p1, p2, tw, th, tsw, tsh) == SeedTile(p1, p2, tw, th, tsw, tsh)

PushSeed(buckets, k, p1, p2) == [buckets EXCEPT ![k] = @ \o <<p1, p2>>]

\* faulty variant: tiles that are not loaded get seeds too
SeedKeptAnywhere(s, p1, p2) == InRaster(s, p1) /\ InRaster(s, p2)

\* the tests a stroke of processSeeds passes before it is stored
SeedKept(s, p1, p2) ==
  /\ InRaster(s, p1) /\ InRaster(s, p2)
  /\ SeedTile(p1, p2, s.tw, s.th, s.cot, s.rot) \in s.loaded

\* one stroke of processSeeds
processStroke(s, p1, p2) ==
  IF SeedKept(s, p1, p2)
  THEN [s EXCEPT !.out_seeds =
          PushSeed(s.out_seeds, SeedTile(p1, p2, s.tw, s.th, s.cot, s.rot),
                   p1, p2)]
  ELSE s

\* faulty variant: every row from left to right
RowTile(j, i, cot) == j * cot + i

\* the tile of the loops of saveSeeds and processAsd at row j, rank i
LoopTile(j, i, cot) == j * cot + (IF j % 2 # 0 THEN cot - 1 - i ELSE i)

\* the buckets of n tiles one after the other, in the order given
RECURSIVE Poured(_, _, _)
Poured(buckets, order, n) ==
  IF n = 0 THEN <<>>
  ELSE Poured(buckets, order, n - 1) \o buckets[order[n]]

SaveOrder(cot, rot) ==
  [n \in 1 .. cot * rot |-> LoopTile((n - 1) \div cot, (n - 1) % cot, cot)]

NumOrder(n) == [x \in 1 .. n |-> x - 1]

EmptyBuckets(n) == [k \in 0 .. n - 1 |-> <<>>]

\* saveSeeds in half-size mode: the strokes are doubled and put in the
\* buckets of a grid twice as fine
RECURSIVE Retiled(_, _, _, _)
Retiled(s, pts, n, res) ==
  IF n > Len(pts) THEN res
  ELSE
    LET p1 == pts[n]
        p2 == pts[n + 1]
        kx == CDiv(CDiv(p1[1] + p2[1], 2), CDiv(s.vm_width, 2 * s.cot))
        ky == CDiv(CDiv(p1[2] + p2[2], 2), CDiv(s.vm_height, 2 * s.rot))
        x1 == 2 * p1[1] + (IF 2 * p2[1] < 2 * p1[1] THEN 1 ELSE 0)
        x2 == 2 * p2[1] + (IF 2 * p2[1] < 2 * p1[1] THEN 0 ELSE 1)
        y1 == 2 * p1[2] + (IF 2 * p2[2] < 2 * p1[2] THEN 1 ELSE 0)
        y2 == 2 * p2[2] + (IF 2 * p2[2] < 2 * p1[2] THEN 0 ELSE 1)
    IN  IF kx < 0 \/ ky < 0 \/ kx >= 2 * s.cot \/ ky >= 2 * s.rot
        THEN Retiled(s, pts, n + 2, res)
        ELSE Retiled(s, pts, n + 2,
                     PushSeed(res, ky * s.cot * 2 + kx, <<x1, y1>>, <<x2, y2>>))

\* faulty variant: the strokes are counted, not their ends
SeedPairCount(pts) == Len(pts) \div 2

\* the count saveSeeds writes: nb, the sum of the sizes of the buckets
SeedCount(pts) == Len(pts)

\* the seeds file saveSeeds writes
saveSeeds(s) ==
  LET pts ==
        IF s.half
        THEN Poured(Retiled(s, Poured(s.out_seeds, NumOrder(s.cot * s.rot),
                                      s.cot * s.rot),
                            1, EmptyBuckets(4 * s.cot * s.rot)),
                    NumOrder(4 * s.cot * s.rot), 4 * s.cot * s.rot)
        ELSE Poured(s.out_seeds, SaveOrder(s.cot, s.rot), s.cot * s.rot)
      f == IF s.half THEN 2 ELSE 1
  IN  [vmw |-> f * s.vm_width, vmh |-> f * s.vm_height,
       vms |-> s.csize \div f, vmc |-> f * s.cot, vmr |-> f * s.rot,
       nb |-> SeedCount(pts), pts |-> pts]

\* the loop of loadSeeds over the nb points read
RECURSIVE LoadedBuckets(_, _, _)
LoadedBuckets(f, i, buckets) ==
  IF i >= f.nb THEN buckets
  ELSE LoadedBuckets(f, i + 2,
         PushSeed(buckets,
                  LoadedTile(f.pts[i + 1], f.pts[i + 2], CDiv(f.vmw, f.vmc),
                             CDiv(f.vmh, f.vmr), f.vmc, f.vmr),
                  f.pts[i + 1], f.pts[i + 2]))

\* loadSeeds: the raster and the buckets of a tool that starts from the file
loadSeeds(s) ==
  [s EXCEPT !.vm_width = s.file.vmw, !.vm_height = s.file.vmh,
            !.csize = s.file.vms,
            !.out_seeds = LoadedBuckets(s.file, 0,
                            EmptyBuckets(s.file.vmc * s.file.vmr))]

NoStroke == [none |-> TRUE]

\* a tile set of cot x rot tiles; csize in quarters of a metre
NewStore(g, loaded, half) ==
  [pc |-> "seeds", cot |-> g[1], rot |-> g[2], tw |-> TileSize,
   th |-> TileSize, vm_width |-> g[1] * TileSize,
   vm_height |-> g[2] * TileSize, csize |-> 2, loaded |-> loaded,
   half |-> half, out_seeds |-> EmptyBuckets(g[1] * g[2]), made |-> <<>>,
   file |-> NULL, last |-> NoStroke, nbs |-> 0, order |-> <<>>]

SeedInit ==
  /\ cfg = AmrelCfg
  /\ csize = 1
  /\ pc = "idle"
  /\ result = "none"
  /\ ip = <<0, 0>>
  /\ fct = NULL
  /\ ict = NULL
  /\ fstatus = RESULT_NONE
  /\ istatus = RESULT_NONE
  /\ initial_unbounded = TRUE
  /\ pass = NoPass
  /\ au = NoAuto
  /\ tr = NoTrack
  /\ ds = NoScanners
  /\ terrain = NoTerrain
  /\ anomaly = FALSE
  /\ walks = <<>>
  /\ okWidths = {}
  /\ rsl = 0
  /\ sc = NoScanner
  /\ out = <<>>
  /\ last = NoOperation
  /\ run = NoRun
  /\ tool = NoTool
  /\ dmap = NoTool
  /\ heap = NoTool
  /\ seed = NoSeed
  /\ pad = NoPad
  /\ saw = NoSaw
  /\ job = NoJob
  /\ plt = NoPlateaux
  /\ srt = NoSort
  /\ \E g \in SeedGrids, half \in BOOLEAN :
       \E loaded \in {GridTiles(g[1], g[2]), GridTiles(g[1], g[2]) \ {0}} :
          store = NewStore(g, loaded, half)

SeedFrame == <<ctdet, scanning, asd, pad, saw, job, plt, srt>>

\* one turn of the loop of processSeeds: a stroke is emitted
SeedStroke ==
  /\ store.pc = "seeds"
  /\ store.nbs < MaxStrokes
  /\ \E p1, p2 \in SeedPoints(store.cot * store.tw, store.rot * store.th) :
       store' = [processStroke(store, p1, p2) EXCEPT
                   !.nbs = store.nbs + 1,
                   !.last = [p1 |-> p1, p2 |-> p2, before |-> store.out_seeds]]
  /\ UNCHANGED SeedFrame

\* STEP_SAWING and STEP_SEEDS: saveSeeds after processSeeds
SeedSave ==
  /\ store.pc = "seeds"
  /\ store' = [store EXCEPT !.pc = "saved", !.file = saveSeeds(store),
                            !.made = store.out_seeds, !.last = NoStroke]
  /\ UNCHANGED SeedFrame

\* STEP_ASD: loadSeeds in a tool that has no seed yet
SeedLoad ==
  /\ store.pc = "saved"
  /\ store' = [loadSeeds(store) EXCEPT !.pc = "loaded"]
  /\ UNCHANGED SeedFrame

\* processAsd without tile buffer: the next tile of the two loops.  The
\* tile grid is the one of the tile set (STEP_ALL after processSeeds,
\* STEP_ASD after loadSeeds with seeds of full size).
SeedAsdTile ==
  /\ \/ store.pc \in {"seeds", "asd"}
     \/ store.pc = "loaded" /\ ~store.half
  /\ Len(store.order) < store.cot * store.rot
  /\ store' = [store EXCEPT
                 !.pc = "asd", !.last = NoStroke,
                 !.order = Append(store.order,
                             LoopTile(Len(store.order) \div store.cot,
                                     Len(store.order) % store.cot, store.cot))]
  /\ UNCHANGED SeedFrame

SeedNext == SeedStroke \/ SeedSave \/ SeedLoad \/ SeedAsdTile

SeedSpec == SeedInit /\ [][SeedNext]_vars

\* ---- the seeds: claims ------------------------------------------------

\* C25: without tile buffer, processAsd takes the seed buckets of every tile
\* once, row by row from row 0 upward, from left to right on even rows and
\* from right to left on odd rows; two tiles processed one after the other
\* are neighbours in the grid.
C25_TilesInBoustrophedon ==
  store # NoStore =>
    /\ \A n \in DOMAIN store.order :
         /\ store.order[n] \div store.cot = (n - 1) \div store.cot
         /\ store.order[n] % store.cot =
              IF ((n - 1) \div store.cot) % 2 = 0
              THEN (n - 1) % store.cot
              ELSE store.cot - 1 - ((n - 1) % store.cot)
    /\ \A n \in DOMAIN store.order : n > 1 =>
         LET a == store.order[n - 1]
             b == store.order[n]
         IN  \/ /\ a \div store.cot = b \div store.cot
                /\ (a - b = 1 \/ b - a = 1)
             \/ /\ a % store.cot = b % store.cot
                /\ b \div store.cot = (a \div store.cot) + 1
    /\ \A n, m \in DOMAIN store.order : store.order[n] = store.order[m] => n = m
    /\ Len(store.order) <= store.cot * store.rot

\* all the tiles of a grid of 2 x 3 tiles have been processed
C25_Witness ==
  /\ store # NoStore
  /\ store.cot = 2 /\ store.rot = 3
  /\ {store.order[n] : n \in DOMAIN store.order} = GridTiles(2, 3)
  /\ C25_TilesInBoustrophedon

\* the tile that holds the middle of the last stroke: floor of the middle
\* over the tile size
MiddleColumn == (store.last.p1[1] + store.last.p2[1]) \div (2 * store.tw)

MiddleRow == (store.last.p1[2] + store.last.p2[2]) \div (2 * store.th)

MiddleTile == MiddleRow * store.cot + MiddleColumn

MiddleInGrid ==
  MiddleColumn \in 0 .. store.cot - 1 /\ MiddleRow \in 0 .. store.rot - 1

EndsInRaster ==
  \A p \in {store.last.p1, store.last.p2} :
    /\ p[1] \in 0 .. store.cot * store.tw - 1
    /\ p[2] \in 0 .. store.rot * store.th - 1

StoredInMiddleTile ==
  store.out_seeds = [store.last.before EXCEPT ![MiddleTile] =
                       @ \o <<store.last.p1, store.last.p2>>]

\* C26 as stated: a stroke whose middle tile is in the raster and loaded is
\* stored as the pair (p1, p2) at the end of the bucket of that tile, and a
\* stroke is dropped only when that tile is outside the raster or not loaded.
C26_StoredByMiddleTile ==
  (store # NoStore /\ store.last # NoStroke) =>
    IF MiddleInGrid /\ MiddleTile \in store.loaded
    THEN StoredInMiddleTile
    ELSE store.out_seeds = store.last.before

\* C26, amended: a stroke is stored when its two ends are in the raster and
\* the tile of its middle is loaded, as the pair (p1, p2) at the end of the
\* bucket of that tile and nowhere else; every other stroke is dropped.
C26_StoredWhenEndsInRaster ==
  (store # NoStore /\ store.last # NoStroke) =>
    IF EndsInRaster /\ MiddleTile \in store.loaded
    THEN StoredInMiddleTile
    ELSE store.out_seeds = store.last.before

\* a stroke with one end out of the raster and its middle in a loaded tile
C26_Witness ==
  /\ store # NoStore
  /\ store.last # NoStroke
  /\ ~EndsInRaster
  /\ MiddleInGrid
  /\ MiddleTile \in store.loaded
  /\ store.out_seeds = store.last.before

\* C27 as stated: the count of the seeds file is the number of stroke pairs
\* that follow it.
C27_CountIsPairs ==
  (store # NoStore /\ store.file # NULL) =>
    2 * store.file.nb = Len(store.file.pts)

\* C27, amended: the count of the seeds file is the number of points that
\* follow it, two for each stroke.
C27_CountIsPoints ==
  (store # NoStore /\ store.file # NULL) =>
    /\ store.file.nb = Len(store.file.pts)
    /\ store.file.nb % 2 = 0

\* a seeds file with two strokes
C27_Witness ==
  /\ store # NoStore
  /\ store.file # NULL
  /\ Len(store.file.pts) = 4
  /\ store.file.nb = 4

\* C28: with seeds of full size, loadSeeds after saveSeeds gives the raster
\* its width and height back, and every tile its bucket: the same strokes
\* in the same order as processSeeds stored them.
C28_SeedsRoundTrip ==
  (store # NoStore /\ store.pc = "loaded" /\ ~store.half) =>
    /\ store.vm_width = store.cot * TileSize
    /\ store.vm_height = store.rot * TileSize
    /\ store.out_seeds = store.made

\* two strokes read back in one bucket
C28_Witness ==
  /\ store # NoStore
  /\ store.pc = "loaded"
  /\ ~store.half
  /\ \E k \in DOMAIN store.made :
       Len(store.made[k]) = 4 /\ store.made[k][1] # store.made[k][3]
  /\ C28_SeedsRoundTrip
\* ---- the plateau search of a side walk: claims ------------------------

\* a scan of the running walk has just got its plateau
JustScanned ==
  /\ pc = "loop"
  /\ plt # NoPlateaux
  /\ tr.num = plt.num + (IF tr.onright THEN 0 - 1 ELSE 1)

\* C29: for each scan of a side walk the plateau search is tried with shift
\* 0, then with +plateauSearchDistance only if that attempt is not OK, then
\* with -plateauSearchDistance only if both are not OK; the plateau added
\* to the track is the first OK attempt, or the unshifted one when none is
\* OK; every other candidate is deleted and the track gets one plateau for
\* the scan.
C29_PlateauTries ==
  plt # NoPlateaux =>
    LET t == plt.tries
        oks == {i \in DOMAIN t : t[i].ok}
        winner == IF oks = {} THEN 1 ELSE CHOOSE i \in oks : \A j \in oks : i <= j
    IN  /\ Len(t) \in 1 .. 3
        /\ t[1].shift = 0
        /\ Len(t) >= 2 => t[2].shift = 1
        /\ Len(t) = 3 => t[3].shift = 0 - 1
        /\ \A i \in DOMAIN t : i < Len(t) => ~t[i].ok
        /\ Len(t) < 3 => t[Len(t)].ok
        /\ \A i \in DOMAIN t :
             t[i].fate = IF i = winner THEN "added" ELSE "deleted"
        /\ plt.pl.ok = (oks # {})
        /\ JustScanned =>
             Len(IF tr.onright THEN PassTrack(tr.exlimit).rights
                 ELSE PassTrack(tr.exlimit).lefts)
               = (IF plt.num < 0 THEN 0 - plt.num ELSE plt.num)

\* the third attempt of the second scan of a walk gave the plateau
C29_Witness ==
  /\ JustScanned
  /\ plt.num \in {0 - 2, 2}
  /\ Len(plt.tries) = 3
  /\ plt.tries[3].ok
  /\ plt.tries[3].fate = "added"
  /\ C29_PlateauTries

\* C30 as stated: confdist is reset to 1 exactly when the plateau of the scan
\* has the status OK, the plateau being accepted then, and is incremented
\* by one exactly when the status is not OK.
C30_ResetWhenOk ==
  JustScanned =>
    IF plt.pl.ok
    THEN /\ tr.confdist = 1
         /\ CT_plateau(PassTrack(tr.exlimit), plt.num).acc
    ELSE tr.confdist = plt.confdist + 1

\* C30, amended: confdist is reset to 1, and the plateau accepted, exactly
\* when the plateau of the scan has the status OK and is reliable; in every
\* other case, a plateau of status OK that is not reliable included,
\* confdist is incremented by one.
C30_ResetWhenOkAndReliable ==
  JustScanned =>
    IF plt.pl.ok /\ plt.pl.rel
    THEN /\ tr.confdist = 1
         /\ CT_plateau(PassTrack(tr.exlimit), plt.num).acc
    ELSE tr.confdist = plt.confdist + 1

\* a plateau of status OK that is not reliable: confdist goes to 2 or more
C30_Witness ==
  /\ JustScanned
  /\ plt.pl.ok
  /\ ~plt.pl.rel
  /\ tr.confdist = plt.confdist + 1
-----------------------------------------------------------------------------
(* Part 7: the ordering of the points of a scan                            *)
(*   src/src/ASDetector/ctrackdetector.cpp, lines 298, 445, 600, 1048-1053 *)
(* The points collected on a scan are pairs (position along the stroke,    *)
(* height), in metres, sorted with compIFurther before the plateau search. *)
(* Coordinates are finite numbers counted in half millimetres:             *)
(* floor (x * 1000) is then the floor of the half of the count.            *)

\* points a scan holds at most
MaxPts == 3

\* coordinates of the points, in half millimetres: -1 mm .. 1 mm
Coords == (0 - 2) .. 2

ScanPoints == [x : Coords, y : Coords]

\* faulty variant: the coordinates are compared as they are
compFurther(p1, p2) ==
  \/ p2.x > p1.x
  \/ p2.x = p1.x /\ p2.y > p1.y

\* floor (c * 1000), c in half millimetres
Milli(c) == c \div 2

\* compIFurther (p1, p2)
compIFurther(p1, p2) ==
  \/ Milli(p2.x) > Milli(p1.x)
  \/ Milli(p2.x) = Milli(p1.x) /\ Milli(p2.y) > Milli(p1.y)

\* std::sort on a short vector (insertion sort): p goes before the trailing
\* elements that comp puts after it
RECURSIVE Inserted(_, _)
Inserted(v, p) ==
  IF v = <<>> \/ ~ compIFurther(p, v[Len(v)]) THEN Append(v, p)
  ELSE Append(Inserted(SubSeq(v, 1, Len(v) - 1), p), v[Len(v)])

RECURSIVE SortedPoints(_)
SortedPoints(v) ==
  IF v = <<>> THEN <<>>
  ELSE Inserted(SortedPoints(SubSeq(v, 1, Len(v) - 1)), v[Len(v)])

NewSort == [pts |-> <<>>, done |-> FALSE]

SortInit ==
  /\ cfg = DefaultCfg
  /\ csize = 1
  /\ pc = "idle"
  /\ result = "none"
  /\ ip = <<0, 0>>
  /\ fct = NULL
  /\ ict = NULL
  /\ fstatus = RESULT_NONE
  /\ istatus = RESULT_NONE
  /\ initial_unbounded = TRUE
  /\ pass = NoPass
  /\ au = NoAuto
  /\ tr = NoTrack
  /\ ds = NoScanners
  /\ terrain = NoTerrain
  /\ anomaly = FALSE
  /\ walks = <<>>
  /\ okWidths = {}
  /\ rsl = 0
  /\ sc = NoScanner
  /\ out = <<>>
  /\ last = NoOperation
  /\ run = NoRun
  /\ tool = NoTool
  /\ dmap = NoTool
  /\ heap = NoTool
  /\ seed = NoSeed
  /\ pad = NoPad
  /\ saw = NoSaw
  /\ job = NoJob
  /\ store = NoStore
  /\ plt = NoPlateaux
  /\ srt = NewSort

SortFrame == <<ctdet, scanning, asd, amrel>>

\* track (), lines 587-599: one more point of the scan goes into pts
SortCollect ==
  /\ srt # NoSort
  /\ ~ srt.done
  /\ Len(srt.pts) < MaxPts
  /\ \E p \in ScanPoints : srt' = [srt EXCEPT !.pts = Append(@, p)]
  /\ UNCHANGED SortFrame

\* track (), line 600: sort (pts.begin (), pts.end (), compIFurther); less
\* holds what compIFurther answers on each pair of the points
SortPoints ==
  /\ srt # NoSort
  /\ ~ srt.done
  /\ srt.pts # <<>>
  /\ srt' = [pts |-> srt.pts, done |-> TRUE,
             less |-> [i \in DOMAIN srt.pts |->
                         [j \in DOMAIN srt.pts |->
                            compIFurther(srt.pts[i], srt.pts[j])]],
             sorted |-> SortedPoints(srt.pts)]
  /\ UNCHANGED SortFrame

SortNext ==
  \/ SortCollect
  \/ SortPoints

SortSpec == SortInit /\ [][SortNext]_vars

\* position and height in whole millimetres, rounded down
MilliKey(p) == <<p.x \div 2, p.y \div 2>>

\* the first key comes before the second: position first, height second
KeyBefore(a, b) == a[1] < b[1] \/ (a[1] = b[1] /\ a[2] < b[2])

\* C31: compIFurther is a strict weak ordering of the points: it orders them
\* by floor (1000 * position) first and floor (1000 * height) second, is
\* irreflexive and transitive, and two points are equivalent (neither comes
\* before the other) exactly when both quantised coordinates are equal;
\* the sorted vector holds the same points in that order.
C31_StrictWeakOrder ==
  (srt # NoSort /\ srt.done) =>
    LET v == srt.pts
        I == DOMAIN v
    IN  /\ \A i, j \in I :
             srt.less[i][j] = KeyBefore(MilliKey(v[i]), MilliKey(v[j]))
        /\ \A i \in I : ~ srt.less[i][i]
        /\ \A i, j, k \in I :
             (srt.less[i][j] /\ srt.less[j][k]) => srt.less[i][k]
        /\ \A i, j \in I :
             (~ srt.less[i][j] /\ ~ srt.less[j][i])
               = (MilliKey(v[i]) = MilliKey(v[j]))
        /\ \A i, j, k \in I :
             (/\ ~ srt.less[i][j] /\ ~ srt.less[j][i]
              /\ ~ srt.less[j][k] /\ ~ srt.less[k][j])
               => (~ srt.less[i][k] /\ ~ srt.less[k][i])
        /\ Len(srt.sorted) = Len(v)
        /\ \A p \in ScanPoints :
             Cardinality({i \in I : v[i] = p})
               = Cardinality({i \in I : srt.sorted[i] = p})
        /\ \A i, j \in I :
             i < j => ~ KeyBefore(MilliKey(srt.sorted[j]),
                                  MilliKey(srt.sorted[i]))

\* three points sorted: two different points of the same millimetres, which
\* are equivalent, and a third one that comes before both
C31_Witness ==
  /\ srt # NoSort
  /\ srt.done
  /\ Len(srt.pts) = 3
  /\ srt.pts[1] # srt.pts[2]
  /\ ~ srt.less[1][2]
  /\ ~ srt.less[2][1]
  /\ srt.less[3][1]
  /\ srt.less[3][2]
  /\ srt.sorted[1] = srt.pts[3]
\* ---- the end of a detection: claims -----------------------------------

BoundsMetInPass ==
  \/ /\ PassTrack(pass.exlimit) # NULL
     /\ CT_plateau(PassTrack(pass.exlimit), 0) # NoPlateau
     /\ CT_plateau(PassTrack(pass.exlimit), 0).bnd
  \/ \E i \in DOMAIN walks : walks[i].found

\* C33: a detection does not depend on the detections made before with the
\* same detector. In the first pass of a call, initial_unbounded has the
\* value it has in a new detector (no bounded plateau met so far), and a
\* walk goes beyond the scan NOBOUNDS_TOLERANCE only when a bounded plateau
\* was met in this detection: otherwise it has failed with NO_BOUNDS.
C33_SameAsNewDetector ==
  (pc = "loop" /\ pass.site = "first") =>
    /\ initial_unbounded = ~ BoundsMetInPass
    /\ (tr.search /\ Abs(tr.num) > NOBOUNDS_TOLERANCE) => BoundsMetInPass

\* scans the scanner of the running walk has delivered
ScansTaken == IF tr.onright THEN ds.r ELSE ds.l

\* C34: every side walk, the second walk of the first side included, starts
\* on the scanner state of the central scan: the scanner of the walk has
\* delivered as many scans as the side holds plateaux, so that the plateau
\* at -k or +k comes from the k-th scan next to the central one.
C34_WalkFromCentralScan ==
  pc = "loop" => ScansTaken = Len(WalkedSide)

\* C35: when detect (p1, p2) has returned, every directional scanner made
\* during the call (the two of the stroke and their two copies) has been
\* deleted.
C35_ScannersDeleted ==
  Returned => ds.live = 0

\* the scan confdist steps from the current one towards the centre
Reference == IF tr.num < 0 THEN tr.num + tr.confdist ELSE tr.num - tr.confdist

\* the scans strictly between the reference and the current one
SinceReference ==
  IF tr.num < 0 THEN (tr.num + 1) .. (Reference - 1)
  ELSE (Reference + 1) .. (tr.num - 1)

\* the plateaux of the set I that the step flags as accepted
NewlyAccepted(I) ==
  LET ct == PassTrack(tr.exlimit)
      nct == IF tr.exlimit # 0 THEN ict' ELSE fct'
  IN  { i \in I : /\ CT_plateau(nct, i) # NoPlateau
                  /\ CT_plateau(nct, i).acc
                  /\ \/ CT_plateau(ct, i) = NoPlateau
                     \/ ~ CT_plateau(ct, i).acc }

\* C36: at every iteration of a side walk, the scan confdist steps from the
\* current one towards the centre holds a plateau of the track: the central
\* plateau, or the last plateau of the side that was accepted directly (no
\* plateau after it was); the iteration flags as accepted the plateau of
\* the current scan and plateaux strictly between the two, no other one.
C36_ReferenceHeld ==
  [][(pc = "loop" /\ tr.search /\ tr.num # tr.exlimit) =>
       LET ct == PassTrack(tr.exlimit)
       IN  /\ IF tr.onright THEN Reference \in (tr.num + 1) .. 0
              ELSE Reference \in 0 .. (tr.num - 1)
           /\ CT_plateau(ct, Reference) # NoPlateau
           /\ Reference # 0 =>
                /\ CT_plateau(ct, Reference).acc
                /\ CT_plateau(ct, Reference).rel
           /\ \A i \in SinceReference :
                /\ CT_plateau(ct, i) # NoPlateau
                /\ ~ CT_plateau(ct, i).rel
           /\ NewlyAccepted((0 - 12) .. 12)
                \subseteq ({tr.num} \cup SinceReference)]_vars

\* the plateau of the last scan was accepted, and with it the unreliable
\* plateau of the scan before, the one before that being the reference
C36_Witness ==
  /\ pc = "loop"
  /\ tr.search
  /\ tr.num # tr.exlimit
  /\ tr.confdist = 1
  /\ Abs(tr.num) = 4
  /\ LET ct == PassTrack(tr.exlimit)
         back == IF tr.num < 0 THEN 1 ELSE 0 - 1
     IN  /\ CT_plateau(ct, Reference).rel
         /\ CT_plateau(ct, Reference).acc
         /\ ~ CT_plateau(ct, Reference + back).rel
         /\ CT_plateau(ct, Reference + back).acc
         /\ CT_plateau(ct, Reference + 2 * back).rel
         /\ CT_plateau(ct, Reference + 2 * back).acc

\* C37: a detection that ends with NO_BOUNDS as final status leaves a track
\* without any bounded accepted plateau, on the sides and at the centre.
C37_NoBoundsNoBounded ==
  (Returned /\ fstatus = RESULT_FAIL_NO_BOUNDS /\ fct # NULL) =>
    \A i \in CT_indices(fct) :
      ~ (/\ CT_plateau(fct, i) # NoPlateau
         /\ CT_plateau(fct, i).bnd
         /\ CT_plateau(fct, i).acc)

\* C38: when detect (p1, p2) has returned a track and no failure was
\* recorded, the final status is RESULT_OK.
C38_SuccessIsOk ==
  (/\ Returned
   /\ result = "track"
   /\ fstatus >= RESULT_NONE
   /\ istatus >= RESULT_NONE) => fstatus = RESULT_OK
====
